---- MODULE Spec2Model ----
(***************************************************************************)
(* hightea-client: the token polling protocol (apiactions.API), the job    *)
(* object (interface.Interface) and the aggregation of variation results   *)
(* (datahandler.DataHandler).                                              *)
(*                                                                         *)
(* Three specifications share the module, one per component:               *)
(*   SpecPoll  one sub-request driven through API: the creation call,      *)
(*             then wait_token_impl consumed by wait_token_json or by a    *)
(*             caller that drains the generator;                           *)
(*   SpecJob   one Interface object and the server's tokens;               *)
(*   SpecData  one DataHandler.                                            *)
(* Each keeps the variables of the other two at their idle values.         *)
(***************************************************************************)
EXTENDS Integers, Sequences, FiniteSets, TLC

VARIABLES
    \* ---- API / transport (SpecPoll) ----
    srv,        \* status the server holds for the token
    payload,    \* the result the server computed (before encoding)
    pc,         \* position of the client in request_hist / wait_token_impl
    consumer,   \* who consumes wait_token_impl: "json" (wait_token_json) or "impl"
    cur,        \* arguments of the running simple_req_no_json call
    sent,       \* session.request calls made by the running logical call
    posts,      \* creation (POST) requests put on the wire so far
    aborts,     \* 'Connection aborted.' failures the transport has produced
    pos,        \* values saturate(FIBO) has produced, capped at Len(FIBO)
    timeout,    \* the loop variable of wait_token_impl
    res,        \* the last snapshot check_token returned
    checked,    \* a snapshot has been yielded
    sinceCheck, \* sleeps since the last status check
    gap,        \* sleeps between the last two status checks (-1: only one check)
    late,       \* a status check or a sleep happened after a terminal snapshot
    out,        \* how the consumer ended: "none" while running
    retval,     \* what wait_token_json returned
    \* ---- Interface (SpecJob) ----
    proc,                \* Interface.proc
    metadata,            \* Interface.metadata: the process it describes, or Absent ({})
    valid_contributions, \* Interface.valid_contributions
    custom_variables,    \* Interface.custom_variables
    histograms,          \* Interface.histograms
    file,                \* content of the job file, Absent before the first store()
    tokens,              \* the jobs the server holds: status and posted body of each
    jobpc,               \* position of the caller in request()
    ops,                 \* public calls made on the Interface object
    atSubmit,            \* request parameters when submit_request completed
    lastRound,           \* the last request_result round: what it saw, what it returned
    lastCall,            \* the last call of a histogram setter: its argument, whether it raised
    \* ---- DataHandler (SpecData) ----
    raw_data,   \* DataHandler.raw_data; raw_data[1] is the constructor's data
    result,     \* DataHandler.result
    calls,      \* the compute_uncertainty calls made: method, factor, len(raw_data), raised
    adds,       \* add_data calls made
    lastAdd,    \* the last add_data call: what it was given, how it ended
    \* ---- DataHandler.is_compatible alone (SpecCompat) ----
    given,      \* the data argument
    test,       \* the value returned
    \* ---- DataHandler.compute_sys_error alone (SpecCombine) ----
    args,       \* values, method, rescale_factor
    ret,        \* how the call ended: the dict returned, or the exception
    \* ---- Interface.submit_request on one histogram (SpecCompile) ----
    hist,       \* the entry of Interface.histograms
    stage,      \* "declared", "compiled" (_finalize_request ran), "submitted", "shown"
    shown,      \* show_result: the slices of the results it used, whether it raised
    \* ---- highteacli.app: the token command (SpecCli) ----
    do_plot,    \* the --plot option
    clisrv,     \* status the server holds for the token
    clipc,      \* position of the process in wait_token
    clires,     \* status of the snapshot wait_token_impl yielded last
    clipos,     \* values saturate(FIBO) has produced, capped as pos is
    exitcode,   \* exit status of the process, -1 while it runs
    cause,      \* what ended the process
    printed,    \* whether res['result'] was written to stdout
    spin,       \* position of the spinner thread in spinner_task
    event,      \* Spinner.event is set
    stdout      \* the writes to sys.stdout, in the order they were made

pollVars == <<srv, payload, pc, consumer, cur, sent, posts, aborts, pos, timeout,
              res, checked, sinceCheck, gap, late, out, retval>>

jobVars == <<proc, metadata, valid_contributions, custom_variables, histograms,
             file, tokens, jobpc, ops, atSubmit, lastRound, lastCall>>

dataVars == <<raw_data, result, calls, adds, lastAdd>>

compatVars == <<given, test>>

combineVars == <<args, ret>>

compileVars == <<hist, stage, shown>>

cliVars == <<do_plot, clisrv, clipc, clires, clipos, exitcode, cause, printed,
             spin, event, stdout>>

nonPollVars == <<jobVars, dataVars, compatVars, combineVars, compileVars, cliVars>>
nonJobVars == <<pollVars, dataVars, compatVars, combineVars, compileVars, cliVars>>
nonDataVars == <<pollVars, jobVars, compatVars, combineVars, compileVars, cliVars>>
nonCompatVars == <<pollVars, jobVars, dataVars, combineVars, compileVars, cliVars>>
nonCombineVars == <<pollVars, jobVars, dataVars, compatVars, compileVars, cliVars>>
nonCompileVars == <<pollVars, jobVars, dataVars, compatVars, combineVars, cliVars>>
nonCliVars == <<pollVars, jobVars, dataVars, compatVars, combineVars, compileVars>>

vars == <<pollVars, jobVars, dataVars, compatVars, combineVars, compileVars, cliVars>>

Absent == "absent"

Min(a, b) == IF a < b THEN a ELSE b

----------------------------------------------------------------------------
(* apiactions.py                                                           *)

FIBO == <<0, 1, 1, 2, 3, 5, 8, 13, 21>>

\* A saturate that starts the sequence again when it is used up.
saturate_Cycles(it, n) == it[((n - 1) % Len(it)) + 1]

\* saturate(it): the n-th value (n from 1) is it[n] while the sequence lasts
\* and its last value afterwards.
saturate(it, n) == it[Min(n, Len(it))]

Statuses == {"submitted", "pending", "running", "completed", "errored"}
Terminal == {"completed", "errored"}

\* json.dumps / json.loads, resp.json(): a JSON text wraps the value it encodes.
JsonDumps(v) == <<"json", v>>
JsonLoads(s) == s[2]

\* What the transport can do with one session.request call.
Outcomes == {"ok", "aborted", "connerr", "http401", "http500"}

\* An optional value: None when the key is missing, Some(x) when it holds x.
None == <<>>
Some(x) == <<x>>
IsSome(o) == o # <<>>
Get(o) == o[1]

\* The body of the server's answer to GET token/<token>.
TokenBody(st, r) ==
    JsonDumps([status |-> st,
               result |-> IF st = "completed" THEN JsonDumps(r) ELSE None])

PostArgs == [method |-> "post", url |-> "processes/proc/hist",
             json |-> "data", form |-> Absent]
GetArgs  == [method |-> "get", url |-> "token/tok",
             json |-> Absent, form |-> Absent]

\* auth_code(username, password, admin): the form body of the login request.
AuthForm(admin) ==
    IF admin THEN "username=u&password=p&scope=admin" ELSE "username=u&password=p"

\* auth_code: simple_req("post", "userauthtoken", form_data=data)
AuthArgs(admin) == [method |-> "post", url |-> "userauthtoken",
                    json |-> Absent, form |-> AuthForm(admin)]

\* An except branch that also retries a connection error of another kind.
OnRequestFailure_RetriesConnErr(o) ==
    IF o \in {"aborted", "connerr"} THEN "retry" ELSE "raise"

\* simple_req_no_json, the except branch: what happens to a failed
\* session.request. The retry is a recursive call of simple_req_no_json.
OnRequestFailure(o) ==
    IF o = "aborted" THEN "retry" ELSE "raise"

\* The recursive call simple_req_no_json(method, url, data): form_data is not
\* passed on.
RetryArgs(a) == [a EXCEPT !.form = Absent]

\* Mutant: 'errored' is not taken for a terminal status.
AfterYield_ErroredLoops(st) ==
    IF st \in {"pending", "running"} THEN "sleep"
    ELSE IF st \in {"completed"} THEN "return"
    ELSE "loop"

\* Mutant: the generator ends on a status it does not know.
AfterYield_GivesUp(st) ==
    IF st \in {"pending", "running"} THEN "sleep"
    ELSE "return"

\* wait_token_impl after the yield: the branch on res["status"].
AfterYield(st) ==
    IF st \in {"pending", "running"} THEN "sleep"
    ELSE IF st \in {"errored", "completed"} THEN "return"
    ELSE "loop"

\* Mutant: wait_token_json without its check for 'errored'.
WaitTokenJson_IgnoresErrored(st) ==
    IF st = "completed" THEN "return" ELSE "next"

\* wait_token_json: the branch on token_res['status'].
WaitTokenJsonBranch(st) ==
    IF st = "errored" THEN "raise"
    ELSE IF st = "completed" THEN "return"
    ELSE "next"

----------------------------------------------------------------------------
(* SpecPoll: one sub-request, from its creation call to the end of the wait *)

MaxAborts == 3
Results == {"r1", "r2"}

InitPollAt(p, a) ==
    /\ srv = "submitted"
    /\ payload \in Results
    /\ pc = p
    /\ consumer \in {"json", "impl"}
    /\ cur = a
    /\ sent = 0
    /\ posts = 0
    /\ aborts = 0
    /\ pos = 0
    /\ timeout = -1
    /\ res = [status |-> Absent, result |-> None]
    /\ checked = FALSE
    /\ sinceCheck = 0
    /\ gap = -1
    /\ late = FALSE
    /\ out = "none"
    /\ retval = Absent

\* The client about to make the creation call of a sub-request.
InitPollVars == InitPollAt("post", PostArgs)

\* A terminal snapshot has been yielded.
TerminalYielded == checked /\ res.status \in Terminal

\* The server works on the job: any change of a status that is not terminal.
ServerStep ==
    /\ pc \notin {"login", "post"}
    /\ srv \notin Terminal
    /\ \E st \in Statuses \ {srv} : srv' = st
    /\ UNCHANGED <<payload, pc, consumer, cur, sent, posts, aborts, pos, timeout,
                   res, checked, sinceCheck, gap, late, out, retval>>
    /\ UNCHANGED nonPollVars

\* One session.request call of simple_req_no_json and what the call does with
\* its outcome: a 2xx answer is returned (request_hist: the token; check_token:
\* the decoded snapshot, which wait_token_impl yields), a failure is retried or
\* raised as RequestProblem.
SessionRequest ==
    /\ pc \in {"post", "get"}
    /\ \E o \in Outcomes :
        /\ o = "aborted" => aborts < MaxAborts
        /\ sent' = sent + 1
        /\ posts' = IF cur.method = "post" THEN posts + 1 ELSE posts
        /\ aborts' = IF o = "aborted" THEN aborts + 1 ELSE aborts
        /\ late' = (late \/ (pc = "get" /\ TerminalYielded))
        /\ IF o = "ok"
           THEN /\ cur' = cur
                /\ out' = out
                /\ IF pc = "post"
                   THEN /\ pc' = "loop"
                        /\ UNCHANGED <<res, checked, sinceCheck, gap>>
                   ELSE /\ pc' = "yielded"
                        /\ res' = JsonLoads(TokenBody(srv, payload))
                        /\ checked' = TRUE
                        /\ gap' = IF checked THEN sinceCheck ELSE -1
                        /\ sinceCheck' = 0
           ELSE IF OnRequestFailure(o) = "retry"
           THEN /\ cur' = RetryArgs(cur)
                /\ UNCHANGED <<pc, out, res, checked, sinceCheck, gap>>
           ELSE /\ pc' = "raised"
                /\ out' = "RequestProblem"
                /\ UNCHANGED <<cur, res, checked, sinceCheck, gap>>
    /\ UNCHANGED <<srv, payload, consumer, pos, timeout, retval>>
    /\ UNCHANGED nonPollVars

\* login(username, password, admin): one session.request call of the
\* auth_code request. The server issues a token only for a request that
\* carries the credentials; with the token set, the client goes on to the
\* creation call. A failure is retried or raised as for every other call.
AuthRequest ==
    /\ pc = "login"
    /\ \E o \in Outcomes :
        /\ o = "aborted" => aborts < MaxAborts
        /\ o = "ok" => cur.form # Absent
        /\ aborts' = IF o = "aborted" THEN aborts + 1 ELSE aborts
        /\ IF o = "ok"
           THEN /\ pc' = "post"
                /\ cur' = PostArgs
                /\ sent' = 0
                /\ out' = out
           ELSE IF OnRequestFailure(o) = "retry"
           THEN /\ cur' = RetryArgs(cur)
                /\ sent' = sent + 1
                /\ UNCHANGED <<pc, out>>
           ELSE /\ pc' = "raised"
                /\ out' = "RequestProblem"
                /\ sent' = sent + 1
                /\ cur' = cur
    /\ UNCHANGED <<srv, payload, consumer, posts, pos, timeout, res, checked,
                   sinceCheck, gap, late, retval>>
    /\ UNCHANGED nonPollVars

\* wait_token_impl, the head of the loop: the next timeout of saturate(FIBO),
\* then the call of check_token.
LoopTop ==
    /\ pc = "loop"
    /\ pos' = Min(pos + 1, Len(FIBO) + 1)
    /\ timeout' = saturate(FIBO, pos + 1)
    /\ cur' = GetArgs
    /\ sent' = 0
    /\ pc' = "get"
    /\ UNCHANGED <<srv, payload, consumer, posts, aborts, res, checked,
                   sinceCheck, gap, late, out, retval>>
    /\ UNCHANGED nonPollVars

\* The consumer's loop body on the yielded snapshot: wait_token_json raises,
\* returns the decoded result or asks for the next snapshot; a caller that
\* drains wait_token_impl always asks for the next.
Consume ==
    /\ pc = "yielded"
    /\ LET br == IF consumer = "json" THEN WaitTokenJsonBranch(res.status)
                 ELSE "next"
       IN  CASE br = "raise"  -> /\ out' = "RuntimeError"
                                 /\ pc' = "closed"
                                 /\ retval' = retval
             [] br = "return" -> /\ out' = "result"
                                 /\ pc' = "closed"
                                 /\ retval' = JsonLoads(res.result)
             [] OTHER         -> /\ pc' = "resume"
                                 /\ UNCHANGED <<out, retval>>
    /\ UNCHANGED <<srv, payload, consumer, cur, sent, posts, aborts, pos, timeout,
                   res, checked, sinceCheck, gap, late>>
    /\ UNCHANGED nonPollVars

\* wait_token_impl resumed after the yield. When it returns, the consumer's
\* for loop ends: wait_token_json falls off its end and returns None.
Resume ==
    /\ pc = "resume"
    /\ LET br == AfterYield(res.status)
       IN  CASE br = "sleep"  -> pc' = "sleep" /\ out' = out
             [] br = "return" -> /\ pc' = "returned"
                                 /\ out' = IF consumer = "json" THEN "None"
                                           ELSE "exhausted"
             [] OTHER         -> pc' = "loop" /\ out' = out
    /\ UNCHANGED <<srv, payload, consumer, cur, sent, posts, aborts, pos, timeout,
                   res, checked, sinceCheck, gap, late, retval>>
    /\ UNCHANGED nonPollVars

\* time.sleep(timeout)
Sleep ==
    /\ pc = "sleep"
    /\ sinceCheck' = Min(sinceCheck + 1, 2)
    /\ late' = (late \/ TerminalYielded)
    /\ pc' = "loop"
    /\ UNCHANGED <<srv, payload, consumer, cur, sent, posts, aborts, pos, timeout,
                   res, checked, gap, out, retval>>
    /\ UNCHANGED nonPollVars

ClientStep == AuthRequest \/ SessionRequest \/ LoopTop \/ Consume \/ Resume \/ Sleep

NextPoll ==
    \/ ServerStep
    \/ AuthRequest
    \/ SessionRequest
    \/ LoopTop
    \/ Consume
    \/ Resume
    \/ Sleep

\* The durations saturate(FIBO) yields: pos counts them, up to the first one
\* after the sequence is used up.
Durations == <<0, 1, 1, 2, 3, 5, 8, 13, 21, 21>>

\* The variables of the Interface object, at rest.
IdleJob ==
    /\ proc = ""
    /\ metadata = Absent
    /\ valid_contributions = <<>>
    /\ custom_variables = <<>>
    /\ histograms = <<>>
    /\ file = <<>>
    /\ tokens = <<>>
    /\ jobpc = "idle"
    /\ ops = 0
    /\ atSubmit = <<>>
    /\ lastRound = <<>>
    /\ lastCall = <<>>

\* The variables of the DataHandler, at rest.
IdleData ==
    /\ raw_data = <<>>
    /\ result = <<>>
    /\ calls = <<>>
    /\ adds = 0
    /\ lastAdd = <<>>

\* No is_compatible call of its own.
IdleCompat ==
    /\ given = <<>>
    /\ test = <<>>

\* No compute_sys_error call of its own.
IdleCombine ==
    /\ args = <<>>
    /\ ret = <<>>

\* No submit_request of its own.
IdleCompile ==
    /\ hist = <<>>
    /\ stage = "none"
    /\ shown = <<>>

\* No command line process.
IdleCli ==
    /\ do_plot = FALSE
    /\ clisrv = "none"
    /\ clipc = "none"
    /\ clires = "none"
    /\ clipos = 0
    /\ exitcode = -1
    /\ cause = "none"
    /\ printed = FALSE
    /\ spin = "none"
    /\ event = FALSE
    /\ stdout = <<>>

InitPoll ==
    /\ \/ InitPollVars
       \/ \E admin \in BOOLEAN : InitPollAt("login", AuthArgs(admin))
    /\ IdleJob /\ IdleData /\ IdleCompat /\ IdleCombine /\ IdleCompile /\ IdleCli

SpecPoll == InitPoll /\ [][NextPoll]_vars

\* The client runs on: every step of its sequential code is eventually taken.
SpecPollFair == SpecPoll /\ WF_vars(ClientStep)

----------------------------------------------------------------------------
(* Claims on SpecPoll                                                      *)

\* C1: wait_token_impl ends right after yielding the first snapshot whose
\* status is completed or errored: once such a snapshot has been yielded the
\* generator issues no further status check and does not sleep, its only step
\* is to return, and it returns only after such a snapshot.
C1_EndsAtFirstTerminal ==
    /\ late = FALSE
    /\ TerminalYielded => pc \in {"yielded", "resume", "returned", "closed"}
    /\ pc = "returned" => TerminalYielded

\* C1 witness: a drained generator that polled several times, slept, and
\* returned after an errored snapshot.
C1_Witness ==
    /\ pc = "returned"
    /\ res.status = "errored"
    /\ pos >= 3
    /\ gap = 1

\* C2 (as claimed): between two consecutive status checks exactly one sleep
\* occurs, whatever non-terminal status the first of them reported.
C2_OneSleepBetweenChecks ==
    checked => gap \in {-1, 1}

C5_AtMostTwoRequests ==
    sent <= 2

\* C6 (as claimed): submitting one sub-request sends exactly one creation
\* call, also when the transport reports a connection failure.
C6_OneCreationCall ==
    /\ posts <= 1
    /\ (pc \notin {"login", "post"} /\ cur.url # "userauthtoken") => posts = 1

\* C23: a failure of session.request other than 'Connection aborted.', and a
\* 4xx/5xx answer, is raised as RequestProblem at once: the request that
\* failed is the last one of the call, a request is followed by another one
\* of the same call only when it was aborted, and without an abort the call
\* ends after exactly one request.
C23_OtherFailuresRaiseAtOnce ==
    /\ [](pc = "raised" => (out = "RequestProblem" /\ (aborts = 0 => sent = 1)))
    /\ [][(pc' = "raised" /\ pc # "raised") => sent' = sent + 1]_vars
    /\ [][(sent' = sent + 1 /\ pc' = pc) => aborts' = aborts + 1]_vars
    /\ [][pc = "raised" => sent' = sent]_vars

\* C23 witness: a status check that failed on its first request, after
\* polls that went through.
C23_Witness ==
    /\ pc = "raised"
    /\ out = "RequestProblem"
    /\ cur.method = "get"
    /\ sent = 1
    /\ aborts = 0
    /\ pos = 3

\* C24: saturate(FIBO) yields 0, 1, 1, 2, 3, 5, 8, 13, 21 once, in order,
\* then 21 again and again; a next duration is always there.
C24_SaturatedSchedule ==
    /\ [](pos >= 1 => timeout = Durations[pos])
    /\ [](pc = "loop" => ENABLED LoopTop)
    /\ [][(pc = "loop" /\ pc' = "get") =>
            (/\ pos < Len(Durations) => (pos' = pos + 1 /\ timeout' = Durations[pos + 1])
             /\ pos = Len(Durations) => (pos' = pos /\ timeout' = 21))]_vars

\* C24 witness: the sequence is used up and 21 was yielded once more.
C24_Witness ==
    /\ pos = Len(FIBO) + 1
    /\ timeout = 21
    /\ pc = "get"

\* A session.request call that was aborted and is followed by the retry.
Retried ==
    /\ AuthRequest \/ SessionRequest
    /\ pc' = pc
    /\ sent' = sent + 1

\* C37: the retry after 'Connection aborted.' sends the same request again:
\* the retried call has the method, the path, the JSON body and the form
\* body of the original call.
C37_RetrySendsSameRequest ==
    [][Retried =>
          /\ cur'.method = cur.method
          /\ cur'.url = cur.url
          /\ cur'.json = cur.json
          /\ cur'.form = cur.form]_vars

----------------------------------------------------------------------------
(* interface.py                                                            *)

RECURSIVE SeqSum(_)
SeqSum(q) == IF q = <<>> THEN 0 ELSE Head(q) + SeqSum(Tail(q))

Last(q) == q[Len(q)]

\* A dict: a function on the set of its keys.
EmptyDict == [k \in {} |-> Absent]
DictSet(d, k, v) == [x \in (DOMAIN d) \cup {k} |-> IF x = k THEN v ELSE d[x]]

\* What GET processes/<proc> answers. nmembers is kept small.
ProcessNames == {"p1", "p2"}
Metadata(p) ==
    [name |-> p,
     pdf_set |-> "pdfA",
     pdf_member |-> 0,
     contribution_groups |-> <<"LO", "NLO">>,
     available_pdfs |-> [pdfA |-> [error_method |-> "replicas", nmembers |-> 2],
                         pdfN |-> [error_method |-> "none", nmembers |-> 1]]]

\* The 'json' dict of a histogram; a key that is not set holds Absent (a
\* string-valued key) or None.
EmptyJson ==
    [name |-> Absent, contributions |-> None, binning |-> None,
     muR |-> Absent, muF |-> Absent, pdf |-> Absent, pdf_member |-> None,
     cuts |-> None, custom_variables |-> None]

\* An entry of Interface.histograms. alias: json['custom_variables'] is the
\* very dict object Interface.custom_variables (set by _finalize_request).
NewHistogram(js) ==
    [json |-> js, variation |-> None, variations |-> None,
     requests |-> None, alias |-> FALSE]

\* The json of a histogram as a reader sees it, the shared dict followed.
JsonOf(h, cv) ==
    [h.json EXCEPT !.custom_variables = IF h.alias THEN Some(cv) ELSE @]

\* A dump that leaves the 'requests' of a histogram out.
Dumped_WithoutRequests(h, cv) ==
    [h EXCEPT !.json = JsonOf(h, cv), !.alias = FALSE, !.requests = None]

\* What json.dump writes for a histogram: values, no sharing.
Dumped(h, cv) == [h EXCEPT !.json = JsonOf(h, cv), !.alias = FALSE]

\* store(): the job file after json.dump(newdict).
Stored(p, vc, cv, hs) ==
    [proc |-> p, valid_contributions |-> vc, custom_variables |-> cv,
     histograms |-> [i \in 1..Len(hs) |-> Dumped(hs[i], cv)]]

\* 'requests' in self.histograms[hid]
HasRequests(h) == IsSome(h.requests)

\* A scale expression with a factor appended: mur+'*2', mur+'/2', mur.
Scaled(expr, f) == <<expr, f>>

\* A compilation whose pdf loop is range(1, nmembers): member 0 is left out.
SetupsOf_PdfFromOne(var, mur, muf, pdf, member, md) ==
    CASE var.kind = "3-point" ->
            << <<Scaled(mur, "*2"), Scaled(muf, "*2"), pdf, member>>,
               <<Scaled(mur, "/2"), Scaled(muf, "/2"), pdf, member>> >>
      [] var.kind = "7-point" ->
            << <<Scaled(mur, "*2"), Scaled(muf, "*2"), pdf, member>>,
               <<Scaled(mur, "/2"), Scaled(muf, "/2"), pdf, member>>,
               <<Scaled(mur, ""),   Scaled(muf, "*2"), pdf, member>>,
               <<Scaled(mur, ""),   Scaled(muf, "/2"), pdf, member>>,
               <<Scaled(mur, "*2"), Scaled(muf, ""),   pdf, member>>,
               <<Scaled(mur, "/2"), Scaled(muf, ""),   pdf, member>> >>
      [] var.kind = "pdf" ->
            IF md.available_pdfs[pdf].error_method = "none" THEN <<>>
            ELSE [it \in 1..(md.available_pdfs[pdf].nmembers - 1) |->
                     <<Scaled(mur, ""), Scaled(muf, ""), pdf, it>>]
      [] var.kind = "custom" -> var.setups

\* _compile_variations: the setups one declared variation adds.
SetupsOf(var, mur, muf, pdf, member, md) ==
    CASE var.kind = "3-point" ->
            << <<Scaled(mur, "*2"), Scaled(muf, "*2"), pdf, member>>,
               <<Scaled(mur, "/2"), Scaled(muf, "/2"), pdf, member>> >>
      [] var.kind = "7-point" ->
            << <<Scaled(mur, "*2"), Scaled(muf, "*2"), pdf, member>>,
               <<Scaled(mur, "/2"), Scaled(muf, "/2"), pdf, member>>,
               <<Scaled(mur, ""),   Scaled(muf, "*2"), pdf, member>>,
               <<Scaled(mur, ""),   Scaled(muf, "/2"), pdf, member>>,
               <<Scaled(mur, "*2"), Scaled(muf, ""),   pdf, member>>,
               <<Scaled(mur, "/2"), Scaled(muf, ""),   pdf, member>> >>
      [] var.kind = "pdf" ->
            IF md.available_pdfs[pdf].error_method = "none" THEN <<>>
            ELSE [it \in 1..md.available_pdfs[pdf].nmembers |->
                     <<Scaled(mur, ""), Scaled(muf, ""), pdf, it - 1>>]
      [] var.kind = "custom" -> var.setups

RECURSIVE SetupsOfAll(_, _, _, _, _, _)
SetupsOfAll(vs, mur, muf, pdf, member, md) ==
    IF vs = <<>> THEN <<>>
    ELSE SetupsOf(Head(vs), mur, muf, pdf, member, md)
         \o SetupsOfAll(Tail(vs), mur, muf, pdf, member, md)

\* _compile_variations(hid): the list stored under 'variations'.
CompiledSetups(h, md) ==
    LET mur    == IF h.json.muR # Absent THEN h.json.muR ELSE "muR0"
        muf    == IF h.json.muF # Absent THEN h.json.muF ELSE "muF0"
        pdf    == IF h.json.pdf # Absent THEN h.json.pdf ELSE md.pdf_set
        member == IF IsSome(h.json.pdf_member) THEN Get(h.json.pdf_member)
                  ELSE md.pdf_member
    IN  << <<Scaled(mur, ""), Scaled(muf, ""), pdf, member>> >>
        \o SetupsOfAll(Get(h.variation), mur, muf, pdf, member, md)

\* _compile_variations raises KeyError: a variation is declared and the
\* metadata is still {} (process() was never called).
CompileRaises(h, md) == IsSome(h.variation) /\ md = Absent

\* _finalize_request(hid)
Finalized(h, md) ==
    [h EXCEPT !.variations = IF IsSome(h.variation)
                             THEN Some(CompiledSetups(h, Metadata(md)))
                             ELSE @,
              !.alias = TRUE]

\* The number of sub-requests a histogram is submitted as.
NSetups(h) == IF IsSome(h.variations) THEN Len(Get(h.variations)) ELSE 1

\* The body of the creation call for setup j of a histogram: a copy of its
\* json, with muR, muF, pdf and pdf_member overwritten by those of the setup
\* when variations were compiled.
RequestBody(h, cv, j) ==
    IF IsSome(h.variations)
    THEN LET setup == Get(h.variations)[j]
         IN  [json |-> JsonOf(h, cv), muR |-> Some(setup[1]), muF |-> Some(setup[2]),
              pdf |-> Some(setup[3]), pdf_member |-> Some(setup[4])]
    ELSE [json |-> JsonOf(h, cv), muR |-> None, muF |-> None,
          pdf |-> None, pdf_member |-> None]

\* 'request '+str(new_id)
RequestName(id) ==
    CASE id = 0 -> "request 0"
      [] id = 1 -> "request 1"
      [] id = 2 -> "request 2"
      [] OTHER  -> "request n"

\* Appending to a list stored under a key that may be missing.
Appended(o, x) == IF IsSome(o) THEN Some(Append(Get(o), x)) ELSE Some(<<x>>)

\* _is_valid_contribution
IsValidContribution(c, vc) == \E i \in 1..Len(vc) : vc[i] = c

\* description(name, hid)
WithDescription(h, name) == [h EXCEPT !.json.name = name]

\* A contribution that takes a list as it is given.
WithContribution_UncheckedList(h, con, vc) ==
    IF con.type = "list"
    THEN [h EXCEPT !.json.contributions = Some(con.items)]
    ELSE IF con.type = "str" /\ IsValidContribution(con.items[1], vc)
    THEN [h EXCEPT !.json.contributions = Some(<<con.items[1]>>)]
    ELSE h

\* contribution(con, hid): con is a str, a list of str, or something else.
WithContribution(h, con, vc) ==
    IF con.type = "list"
    THEN IF \A i \in 1..Len(con.items) : IsValidContribution(con.items[i], vc)
         THEN [h EXCEPT !.json.contributions = Some(con.items)]
         ELSE h
    ELSE IF con.type = "str" /\ IsValidContribution(con.items[1], vc)
    THEN [h EXCEPT !.json.contributions = Some(<<con.items[1]>>)]
    ELSE h

\* binning(variable, binning, hid): the second definition of the name, which
\* is the one the class keeps.
WithBinning(h, variable, bins) ==
    [h EXCEPT !.json.binning = Appended(@, [variable |-> variable, bins |-> bins])]

\* scales(muR, muF, hid)
WithScales(h, muR, muF) == [h EXCEPT !.json.muR = muR, !.json.muF = muF]

\* pdf(pdf, pdf_member, hid)
WithPdf(h, pdf, member) ==
    [h EXCEPT !.json.pdf = pdf, !.json.pdf_member = Some(member)]

\* scale_variation(variation_type, hid)
WithScaleVariation(h, type) ==
    IF type = "3-point" \/ type = "7-point"
    THEN [h EXCEPT !.variation = Appended(@, [kind |-> type, setups |-> <<>>])]
    ELSE h

\* pdf_variation(hid)
WithPdfVariation(h) ==
    [h EXCEPT !.variation = Appended(@, [kind |-> "pdf", setups |-> <<>>])]

\* set_custom_variation(variations, hid)
WithCustomVariation(h, setups) ==
    [h EXCEPT !.variation = Appended(@, [kind |-> "custom", setups |-> setups])]

\* _is_valid_cut
IsValidCut(cut) == cut.type = "str"

\* cuts(cuts, hid) for a list: the cuts before the first one that is not a
\* str are appended; at that one the warning's "WARNING: "+cut raises
\* TypeError.
RECURSIVE ValidPrefix(_)
ValidPrefix(cs) ==
    IF cs = <<>> \/ ~IsValidCut(Head(cs)) THEN <<>>
    ELSE <<Head(cs).v>> \o ValidPrefix(Tail(cs))

CutsRaises(cuts) ==
    IF cuts.type = "list" THEN Len(ValidPrefix(cuts.items)) < Len(cuts.items)
    ELSE cuts.type # "str"

RECURSIVE AppendedAll(_, _)
AppendedAll(o, xs) ==
    IF xs = <<>> THEN o ELSE AppendedAll(Appended(o, Head(xs)), Tail(xs))

WithCuts(h, cuts) ==
    IF cuts.type = "str" THEN [h EXCEPT !.json.cuts = Appended(@, cuts.items[1].v)]
    ELSE IF cuts.type = "list"
    THEN [h EXCEPT !.json.cuts = AppendedAll(@, ValidPrefix(cuts.items))]
    ELSE h

\* read_json(filename, hid)
WithJson(h, js) == [h EXCEPT !.json = js]

\* The histograms after _finalize_request ran over them in order; it stops
\* at the first histogram whose compilation raises.
RECURSIVE FinalizedUpTo(_, _, _)
FinalizedUpTo(hs, md, i) ==
    IF i > Len(hs) \/ CompileRaises(hs[i], md) THEN hs
    ELSE FinalizedUpTo([hs EXCEPT ![i] = Finalized(hs[i], md)], md, i + 1)

FinalizeRaises(hs, md) == \E i \in 1..Len(hs) : CompileRaises(hs[i], md)

\* Sub-requests of the histograms before histogram i.
RECURSIVE Offset(_, _)
Offset(hs, i) == IF i <= 1 THEN 0 ELSE Offset(hs, i - 1) + NSetups(hs[i - 1])

TotalSetups(hs) == Offset(hs, Len(hs) + 1)

\* A fresh entry of 'requests': [token, 'submitted'].
NewRequest(tok) == [token |-> tok, state |-> "submitted", result |-> None]

\* submit_request, the loop over the histograms, when the first n creation
\* calls succeed (n = TotalSetups: all of them). A histogram the loop reached
\* has its 'requests' list, with one entry per call that succeeded; the server
\* numbers its jobs from `base`.
Submitted(hs, n, base) ==
    [i \in 1..Len(hs) |->
        IF Offset(hs, i) <= n /\ (Offset(hs, i) < n \/ n < TotalSetups(hs))
        THEN [hs[i] EXCEPT !.requests =
                 Some([j \in 1..Min(NSetups(hs[i]), n - Offset(hs, i)) |->
                          NewRequest(base + Offset(hs, i) + j)])]
        ELSE hs[i]]

\* The body of the g-th creation call of submit_request.
RECURSIVE BodyOf(_, _, _, _)
BodyOf(hs, cv, g, i) ==
    IF g <= Offset(hs, i) + NSetups(hs[i])
    THEN RequestBody(hs[i], cv, g - Offset(hs, i))
    ELSE BodyOf(hs, cv, g, i + 1)

\* The result the server computes for a job, and holds encoded.
ResultOf(tok) == [histogram |-> tok, fiducial_mean |-> tok]

\* Python: a dict never equals a str.
DictEqStr(d, str) == FALSE

\* request_result: the branch on the answer to GET token/<token>.
RequestResultBranch(resp) ==
    IF resp.status = "completed" THEN "store"
    ELSE IF DictEqStr(resp, "errored") THEN "error"
    ELSE "wait"

\* The answer of the server to GET token/<token>, decoded by simple_req.
TokenAnswer(tks, tok) ==
    JsonLoads(JsonDumps([status |-> tks[tok].status,
                         result |-> IF tks[tok].status = "completed"
                                    THEN Some(JsonDumps(ResultOf(tok))) ELSE None]))

\* A polling that stores, for an entry still 'submitted', the result of the
\* first job the server has completed, whichever entry it was created for.
Polled_ByArrival(req, tks) ==
    IF req.state # "submitted" THEN req
    ELSE IF \E t \in 1..Len(tks) : tks[t].status = "completed"
    THEN LET first == CHOOSE t \in 1..Len(tks) :
                         /\ tks[t].status = "completed"
                         /\ \A u \in 1..(t - 1) : tks[u].status # "completed"
         IN  [req EXCEPT !.state = "done",
                         !.result = Some(JsonLoads(Get(TokenAnswer(tks, first).result)))]
    ELSE req

\* request_result on one entry of 'requests'.
Polled(req, tks) ==
    IF req.state # "submitted" THEN req
    ELSE LET resp == TokenAnswer(tks, req.token)
             br   == RequestResultBranch(resp)
         IN  CASE br = "store" -> [req EXCEPT !.state = "done",
                                              !.result = Some(JsonLoads(Get(resp.result)))]
               [] br = "error" -> [req EXCEPT !.state = "error"]
               [] OTHER        -> req

\* A round that never clears `finished`.
StillFinished_Always(req, tks) == TRUE

\* Whether request_result leaves `finished` True after this entry.
StillFinished(req, tks) ==
    req.state # "submitted"
    \/ RequestResultBranch(TokenAnswer(tks, req.token)) # "wait"

\* request_result, the loops over histograms and requests, from entry j of
\* histogram i on, when the next b status checks succeed and the one after
\* them raises RequestProblem. A histogram without 'requests' raises KeyError.
\* The value: the histograms, `finished`, whether the round raised, and how
\* many of the b status checks were not made.
RECURSIVE PollFrom(_, _, _, _, _, _)
PollFrom(hs, tks, i, j, b, fin) ==
    IF i > Len(hs) THEN [hs |-> hs, finished |-> fin, raised |-> FALSE, left |-> b]
    ELSE IF ~HasRequests(hs[i])
    THEN [hs |-> hs, finished |-> fin, raised |-> TRUE, left |-> b]
    ELSE IF j > Len(Get(hs[i].requests)) THEN PollFrom(hs, tks, i + 1, 1, b, fin)
    ELSE LET req == Get(hs[i].requests)[j]
         IN  IF req.state # "submitted" THEN PollFrom(hs, tks, i, j + 1, b, fin)
             ELSE IF b = 0 THEN [hs |-> hs, finished |-> fin, raised |-> TRUE, left |-> b]
             ELSE PollFrom(
                    [hs EXCEPT ![i].requests = Some([Get(@) EXCEPT ![j] = Polled(req, tks)])],
                    tks, i, j + 1, b - 1, fin /\ StillFinished(req, tks))

\* request_result(): one polling round.
RequestResult(hs, tks, b) == PollFrom(hs, tks, 1, 1, b, TRUE)

\* The entries still marked 'submitted'.
NSubmitted(hs) ==
    SeqSum([i \in 1..Len(hs) |->
        IF HasRequests(hs[i])
        THEN Cardinality({j \in 1..Len(Get(hs[i].requests)) :
                             Get(hs[i].requests)[j].state = "submitted"})
        ELSE 0])

----------------------------------------------------------------------------
(* SpecJob: one Interface object, its job file and the server's jobs       *)

MaxOps == 4
MaxHist == 2
MaxSetups == 3

ProcInputs == {[type |-> "str", v |-> "p1"], [type |-> "str", v |-> "p2"],
               [type |-> "int", v |-> "7"]}
ProcPath(p) == IF p = "p1" THEN "processes/p1" ELSE "processes/p2"
VarNames == {"v1"}
VarDefs == {"d1", "d2"}
LoadInputs == { <<[key |-> "v1", type |-> "str", v |-> "d2"]>>,
                <<[key |-> "v2", type |-> "int", v |-> "5"]>> }
HistInputs == {[type |-> "none", json |-> EmptyJson],
               [type |-> "dict", json |-> [EmptyJson EXCEPT !.muR = "m1"]],
               [type |-> "other", json |-> EmptyJson]}
ConInputs == {[type |-> "str", items |-> <<"LO">>],
              [type |-> "str", items |-> <<"XX">>],
              [type |-> "list", items |-> <<"LO", "XX">>],
              [type |-> "list", items |-> <<"LO", "NLO">>],
              [type |-> "other", items |-> <<>>]}
BinInputs == {<<0, 50>>, <<50, 0>>}
ScaleVariationInputs == {"3-point", "7-point", "5-point"}
CustomInputs == { << <<Scaled("muR0", "*4"), Scaled("muF0", "*4"), "pdfA", 0>> >> }
CutInputs == {[type |-> "str", items |-> <<[type |-> "str", v |-> "c1"]>>],
              [type |-> "list", items |-> <<[type |-> "str", v |-> "c2"],
                                            [type |-> "int", v |-> "3"]>>],
              [type |-> "other", items |-> <<>>]}
FileJson == [EmptyJson EXCEPT !.name = "from file"]

\* Interface(name) when no job file exists: the empty job, stored.
InitJobVars ==
    /\ proc = ""
    /\ metadata = Absent
    /\ valid_contributions = <<>>
    /\ custom_variables = EmptyDict
    /\ histograms = <<>>
    /\ file = Some(Stored("", <<>>, EmptyDict, <<>>))
    /\ tokens = <<>>
    /\ jobpc = "idle"
    /\ ops = 0
    /\ atSubmit = None
    /\ lastRound = [valid |-> FALSE, allTerminal |-> FALSE, finished |-> FALSE,
                    checks |-> 0, before |-> 0, after |-> 0]
    /\ lastCall = None

\* The caller is not inside request() and makes one more call.
CanCall ==
    /\ jobpc \in {"idle", "finished"}
    /\ ops < MaxOps
    /\ ops' = ops + 1
    /\ jobpc' = "idle"

\* The job counts as submitted: the last histogram carries 'requests'.
JobSubmitted == Len(histograms) > 0 /\ HasRequests(Last(histograms))

\* The request parameters of the job.
Parameters ==
    [proc |-> proc,
     histograms |-> [i \in 1..Len(histograms) |->
                        [json |-> JsonOf(histograms[i], custom_variables),
                         variation |-> histograms[i].variation,
                         variations |-> histograms[i].variations]]]

HidInputs == {-1} \cup (0..(Len(histograms) - 1))
HidIndex(hid) == IF hid = -1 THEN Len(histograms) ELSE hid + 1

\* The call of a setter, as its caller sees it.
Call(op, arg, raised) == [op |-> op, arg |-> arg, raised |-> raised]

\* A setter of one histogram: nothing changes when the histogram carries
\* 'requests'; otherwise the histogram becomes h and, when the setter gets as
\* far as its store(), the job file is written.
SetHistogram(hid, h, stores, call) ==
    /\ CanCall
    /\ Len(histograms) > 0
    /\ lastCall' = Some([call EXCEPT
                            !.raised = @ /\ ~HasRequests(histograms[HidIndex(hid)])])
    /\ IF HasRequests(histograms[HidIndex(hid)])
       THEN UNCHANGED <<histograms, file>>
       ELSE /\ histograms' = [histograms EXCEPT ![HidIndex(hid)] = h]
            /\ file' = IF stores
                       THEN Some(Stored(proc, valid_contributions, custom_variables,
                                        histograms'))
                       ELSE file
    /\ UNCHANGED <<proc, metadata, valid_contributions, custom_variables, tokens,
                   atSubmit, lastRound>>
    /\ UNCHANGED nonJobVars

\* process(proc): the metadata request may fail, after self.proc was set.
Process ==
    /\ CanCall
    /\ \E p \in ProcInputs, ok \in BOOLEAN :
        IF p.type = "str"
        THEN /\ proc' = ProcPath(p.v)
             /\ IF ok
                THEN /\ metadata' = p.v
                     /\ valid_contributions' = Metadata(p.v).contribution_groups
                     /\ file' = Some(Stored(proc', valid_contributions',
                                            custom_variables, histograms))
                ELSE UNCHANGED <<metadata, valid_contributions, file>>
        ELSE /\ ok
             /\ file' = Some(Stored(proc, valid_contributions, custom_variables,
                                    histograms))
             /\ UNCHANGED <<proc, metadata, valid_contributions>>
    /\ UNCHANGED <<custom_variables, histograms, tokens, atSubmit, lastRound>>
    /\ lastCall' = None
    /\ UNCHANGED nonJobVars

\* define_new_variable(name, definition)
DefineNewVariable ==
    /\ CanCall
    /\ \E n \in VarNames, d \in VarDefs :
        custom_variables' = DictSet(custom_variables, n, d)
    /\ file' = Some(Stored(proc, valid_contributions, custom_variables', histograms))
    /\ UNCHANGED <<proc, metadata, valid_contributions, histograms, tokens,
                   atSubmit, lastRound>>
    /\ lastCall' = None
    /\ UNCHANGED nonJobVars

\* load_variable_definitions(filename): the definitions that are str are set.
RECURSIVE Loaded(_, _)
Loaded(cv, entries) ==
    IF entries = <<>> THEN cv
    ELSE Loaded(IF Head(entries).type = "str"
                THEN DictSet(cv, Head(entries).key, Head(entries).v) ELSE cv,
                Tail(entries))

LoadVariableDefinitions ==
    /\ CanCall
    /\ \E entries \in LoadInputs : custom_variables' = Loaded(custom_variables, entries)
    /\ UNCHANGED <<proc, metadata, valid_contributions, histograms, file, tokens,
                   atSubmit, lastRound>>
    /\ lastCall' = None
    /\ UNCHANGED nonJobVars

\* add_histogram(js)
AddHistogram ==
    /\ CanCall
    /\ Len(histograms) < MaxHist
    /\ \E js \in HistInputs :
        IF JobSubmitted \/ js.type = "other"
        THEN UNCHANGED <<histograms, file>>
        ELSE /\ histograms' = Append(histograms,
                 NewHistogram(IF js.json.name = Absent
                              THEN [js.json EXCEPT !.name = RequestName(Len(histograms))]
                              ELSE js.json))
             /\ file' = Some(Stored(proc, valid_contributions, custom_variables,
                                    histograms'))
    /\ UNCHANGED <<proc, metadata, valid_contributions, custom_variables, tokens,
                   atSubmit, lastRound>>
    /\ lastCall' = None
    /\ UNCHANGED nonJobVars

Description ==
    \E hid \in HidInputs :
        SetHistogram(hid, WithDescription(histograms[HidIndex(hid)], "descr"), TRUE,
                     Call("description", "descr", FALSE))

Contribution ==
    \E hid \in HidInputs, con \in ConInputs :
        SetHistogram(hid, WithContribution(histograms[HidIndex(hid)], con,
                                           valid_contributions), TRUE,
                     Call("contribution", con, FALSE))

Binning ==
    \E hid \in HidInputs, bins \in BinInputs :
        SetHistogram(hid, WithBinning(histograms[HidIndex(hid)], "pt", bins), TRUE,
                     Call("binning", bins, FALSE))

Scales ==
    \E hid \in HidInputs :
        SetHistogram(hid, WithScales(histograms[HidIndex(hid)], "m1", "m2"), TRUE,
                     Call("scales", <<"m1", "m2">>, FALSE))

Pdf ==
    \E hid \in HidInputs :
        SetHistogram(hid, WithPdf(histograms[HidIndex(hid)], "pdfN", 1), TRUE,
                     Call("pdf", <<"pdfN", 1>>, FALSE))

ScaleVariation ==
    \E hid \in HidInputs, type \in ScaleVariationInputs :
        SetHistogram(hid, WithScaleVariation(histograms[HidIndex(hid)], type), TRUE,
                     Call("scale_variation", type, FALSE))

PdfVariation ==
    \E hid \in HidInputs :
        SetHistogram(hid, WithPdfVariation(histograms[HidIndex(hid)]), TRUE,
                     Call("pdf_variation", <<>>, FALSE))

SetCustomVariation ==
    \E hid \in HidInputs, setups \in CustomInputs :
        SetHistogram(hid, WithCustomVariation(histograms[HidIndex(hid)], setups), TRUE,
                     Call("set_custom_variation", setups, FALSE))

Cuts ==
    \E hid \in HidInputs, cuts \in CutInputs :
        SetHistogram(hid, WithCuts(histograms[HidIndex(hid)], cuts), ~CutsRaises(cuts),
                     Call("cuts", cuts, CutsRaises(cuts)))

ReadJson ==
    \E hid \in HidInputs :
        SetHistogram(hid, WithJson(histograms[HidIndex(hid)], FileJson), FALSE,
                     Call("read_json", FileJson, FALSE))

\* submit_request(): nothing happens on an empty or a submitted job.
\* Otherwise the histograms are finalized, then one creation call is made per
\* setup; the first n of them succeed. The job file is written when all did.
SubmitEffect(n) ==
    IF Len(histograms) = 0 \/ JobSubmitted
    THEN /\ n = 0
         /\ UNCHANGED <<histograms, file, tokens, atSubmit>>
    ELSE IF FinalizeRaises(histograms, metadata)
    THEN /\ n = 0
         /\ histograms' = FinalizedUpTo(histograms, metadata, 1)
         /\ UNCHANGED <<file, tokens, atSubmit>>
    ELSE LET hs    == FinalizedUpTo(histograms, metadata, 1)
             total == TotalSetups(hs)
         IN  /\ total <= MaxSetups
             /\ n <= total
             /\ proc = "" => n = 0
             /\ histograms' = Submitted(hs, n, Len(tokens))
             /\ tokens' = tokens \o [g \in 1..n |->
                              [status |-> "running",
                               body |-> BodyOf(hs, custom_variables, g, 1)]]
             /\ IF n = total
                THEN /\ file' = Some(Stored(proc, valid_contributions,
                                            custom_variables, histograms'))
                     /\ atSubmit' = Some([proc |-> proc,
                            histograms |-> [i \in 1..Len(hs) |->
                                [json |-> JsonOf(hs[i], custom_variables),
                                 variation |-> hs[i].variation,
                                 variations |-> hs[i].variations]]])
                ELSE UNCHANGED <<file, atSubmit>>

\* Whether submit_request with this many successful calls returned normally.
SubmitReturns(n) ==
    \/ Len(histograms) = 0
    \/ JobSubmitted
    \/ /\ ~FinalizeRaises(histograms, metadata)
       /\ n = TotalSetups(FinalizedUpTo(histograms, metadata, 1))

\* submit_request() called by the user.
SubmitRequest ==
    /\ CanCall
    /\ \E n \in 0..MaxSetups : SubmitEffect(n)
    /\ UNCHANGED <<proc, metadata, valid_contributions, custom_variables, lastRound>>
    /\ lastCall' = None
    /\ UNCHANGED nonJobVars

\* One round of request_result and what it leaves behind.
RoundEffect(b) ==
    LET r == RequestResult(histograms, tokens, b)
    IN  /\ histograms' = r.hs
        /\ IF r.raised
           THEN UNCHANGED <<file, lastRound>>
           ELSE /\ file' = Some(Stored(proc, valid_contributions, custom_variables,
                                       histograms'))
                /\ lastRound' =
                     [valid |-> TRUE,
                      allTerminal |-> \A t \in 1..Len(tokens) :
                                          tokens[t].status \in Terminal,
                      finished |-> r.finished,
                      checks |-> b - r.left,
                      before |-> NSubmitted(histograms),
                      after |-> NSubmitted(r.hs)]

\* The status checks of a round that can be the failing one: none (all
\* succeed), or one of those the round would make.
RoundInputs == 0..NSubmitted(histograms)
AllSucceed == NSubmitted(histograms)

\* request_result() called by the user.
RequestResultCall ==
    /\ CanCall
    /\ \E b \in RoundInputs :
        /\ b < AllSucceed \/ b = AllSucceed
        /\ RoundEffect(b)
    /\ UNCHANGED <<proc, metadata, valid_contributions, custom_variables, tokens,
                   atSubmit>>
    /\ lastCall' = None
    /\ UNCHANGED nonJobVars

\* request(): submit_request(), then the polling loop is entered. An
\* exception of submit_request ends the call.
Request ==
    /\ jobpc \in {"idle", "finished"}
    /\ ops < MaxOps
    /\ ops' = ops + 1
    /\ \E n \in 0..MaxSetups :
        /\ SubmitEffect(n)
        /\ jobpc' = IF SubmitReturns(n) THEN "loop" ELSE "idle"
    /\ UNCHANGED <<proc, metadata, valid_contributions, custom_variables, lastRound>>
    /\ lastCall' = None
    /\ UNCHANGED nonJobVars

\* request(), one turn of its loop: request_result(); when it is True the
\* call returns, otherwise it sleeps. An exception ends the call.
RequestLoop ==
    /\ jobpc = "loop"
    /\ \E b \in RoundInputs :
        /\ RoundEffect(b)
        /\ LET r == RequestResult(histograms, tokens, b)
           IN  jobpc' = IF r.raised THEN "idle"
                        ELSE IF r.finished THEN "finished" ELSE "sleep"
    /\ UNCHANGED <<proc, metadata, valid_contributions, custom_variables, tokens,
                   ops, atSubmit>>
    /\ UNCHANGED lastCall
    /\ UNCHANGED nonJobVars

\* request(): time.sleep(timeout)
RequestSleep ==
    /\ jobpc = "sleep"
    /\ jobpc' = "loop"
    /\ UNCHANGED <<proc, metadata, valid_contributions, custom_variables, histograms,
                   file, tokens, ops, atSubmit, lastRound>>
    /\ UNCHANGED lastCall
    /\ UNCHANGED nonJobVars

\* The server finishes a job: completed or errored.
ServerFinish ==
    /\ \E t \in 1..Len(tokens), st \in Terminal :
        /\ tokens[t].status \notin Terminal
        /\ tokens' = [tokens EXCEPT ![t].status = st]
    /\ UNCHANGED <<proc, metadata, valid_contributions, custom_variables, histograms,
                   file, jobpc, ops, atSubmit, lastRound>>
    /\ UNCHANGED lastCall
    /\ UNCHANGED nonJobVars

\* store() called by the user.
Store ==
    /\ CanCall
    /\ file' = Some(Stored(proc, valid_contributions, custom_variables, histograms))
    /\ UNCHANGED <<proc, metadata, valid_contributions, custom_variables, histograms,
                   tokens, atSubmit, lastRound>>
    /\ lastCall' = None
    /\ UNCHANGED nonJobVars

\* The process whose metadata GET <proc> answers; '' is no process, and the
\* answer to it has none of the keys of a process.
ProcName(path) ==
    IF path = ProcPath("p1") THEN "p1"
    ELSE IF path = ProcPath("p2") THEN "p2"
    ELSE Absent

\* json.load of the job file: the four fields, as values.
LoadedJob(f) ==
    [proc |-> f.proc, valid_contributions |-> f.valid_contributions,
     custom_variables |-> f.custom_variables, histograms |-> f.histograms]

\* Interface(name, directory, overwrite=False) when the job file exists: the
\* constructor read the four fields from the file and the metadata request
\* answered.
ReloadReturns ==
    /\ CanCall
    /\ LET job == LoadedJob(Get(file))
       IN  /\ proc' = job.proc
           /\ valid_contributions' = job.valid_contributions
           /\ custom_variables' = job.custom_variables
           /\ histograms' = job.histograms
           /\ metadata' = ProcName(job.proc)
    /\ UNCHANGED <<file, tokens, atSubmit, lastRound>>
    /\ lastCall' = None
    /\ UNCHANGED nonJobVars

\* The same constructor when the metadata request fails: it raises, and the
\* caller is left with the object it had.
ReloadRaises ==
    /\ CanCall
    /\ UNCHANGED <<proc, metadata, valid_contributions, custom_variables, histograms,
                   file, tokens, atSubmit, lastRound>>
    /\ lastCall' = None
    /\ UNCHANGED nonJobVars

Reload == ReloadReturns \/ ReloadRaises

NextJob ==
    \/ Process
    \/ DefineNewVariable
    \/ LoadVariableDefinitions
    \/ AddHistogram
    \/ Description
    \/ Contribution
    \/ Binning
    \/ Scales
    \/ Pdf
    \/ ScaleVariation
    \/ PdfVariation
    \/ SetCustomVariation
    \/ Cuts
    \/ ReadJson
    \/ SubmitRequest
    \/ RequestResultCall
    \/ Store
    \/ Reload
    \/ Request
    \/ RequestLoop
    \/ RequestSleep
    \/ ServerFinish

\* The variables of the polling client, at rest.
IdlePoll == InitPollVars /\ payload = "r1" /\ consumer = "json"

InitJob ==
    /\ InitJobVars
    /\ IdlePoll /\ IdleData /\ IdleCompat /\ IdleCombine /\ IdleCompile /\ IdleCli

SpecJob == InitJob /\ [][NextJob]_vars

----------------------------------------------------------------------------
(* Claims on SpecJob                                                       *)

\* C7 (as claimed): once submit_request has completed, no later public call
\* changes a request parameter: the process and every histogram's json (its
\* custom_variables included), variation and variations stay as they were at
\* submission.
C7_ParametersFrozen ==
    IsSome(atSubmit) => Parameters = Get(atSubmit)

\* C8 (as claimed): once every sub-request has reached a terminal status,
\* completed or errored, request() returns: a polling round made when the
\* server holds a terminal status for every token finds the job finished.
C8_FinishedWhenAllTerminal ==
    (lastRound.valid /\ lastRound.allTerminal) => lastRound.finished

\* The histograms as a reader of the job sees them: each json with the shared
\* dict followed, the declared and compiled variations, the 'requests' list.
HistogramValues(hs, cv) ==
    [i \in 1..Len(hs) |->
        [json |-> JsonOf(hs[i], cv), variation |-> hs[i].variation,
         variations |-> hs[i].variations, requests |-> hs[i].requests]]

IsCallOf(op) ==
    ops' = ops + 1 /\ IsSome(lastCall') /\ Get(lastCall').op = op

\* The state the public calls work on, the job file aside.
jobState == <<proc, metadata, valid_contributions, custom_variables, histograms>>

\* A contribution argument that is no str and no list, or names a
\* contribution that is not in valid_contributions.
InvalidContribution(con, vc) ==
    \/ con.type \notin {"str", "list"}
    \/ \E i \in 1..Len(con.items) : ~IsValidContribution(con.items[i], vc)

\* C26: contribution(con, hid) with a name that is not in
\* valid_contributions, a list holding such a name, or a value that is
\* neither str nor list, does not raise and leaves the contributions of the
\* histogram and the rest of the job as they were.
C26_InvalidContributionIsNoOp ==
    [][(IsCallOf("contribution")
        /\ InvalidContribution(Get(lastCall').arg, valid_contributions))
       => (~Get(lastCall').raised /\ UNCHANGED jobState /\ UNCHANGED tokens)]_vars

\* A list with one valid and one unknown name was given for a histogram that
\* is not submitted and has contributions: they are still there.
C26_Witness ==
    /\ IsSome(lastCall)
    /\ Get(lastCall).op = "contribution"
    /\ Get(lastCall).arg = [type |-> "list", items |-> <<"LO", "XX">>]
    /\ ~Get(lastCall).raised
    /\ valid_contributions = <<"LO", "NLO">>
    /\ Len(histograms) = 1
    /\ ~HasRequests(histograms[1])
    /\ histograms[1].json.contributions = Some(<<"LO">>)

\* A cuts argument that is no str and no list, or a list holding a cut that
\* is no str.
InvalidCut(cuts) ==
    \/ cuts.type \notin {"str", "list"}
    \/ cuts.type = "list" /\ \E i \in 1..Len(cuts.items) : ~IsValidCut(cuts.items[i])

\* C27 (as claimed): cuts(cuts, hid) with a cut that is no str inside a list,
\* or with an argument that is neither str nor list, does not raise and
\* leaves the cuts of the histogram as they were.
C27_InvalidCutIsNoOp ==
    [][(IsCallOf("cuts") /\ InvalidCut(Get(lastCall').arg))
       => (~Get(lastCall').raised /\ histograms' = histograms)]_vars

StrictlyIncreasing(bins) == \A i \in 1..(Len(bins) - 1) : bins[i] < bins[i + 1]

\* C28 (as claimed): binning(variable, binning, hid) with bin edges that are
\* not strictly increasing does not raise and leaves the binning list of the
\* histogram as it was.
C28_UnorderedBinsIsNoOp ==
    [][(IsCallOf("binning") /\ ~StrictlyIncreasing(Get(lastCall').arg))
       => (~Get(lastCall').raised /\ histograms' = histograms)]_vars

\* Every histogram of hs carries a 'requests' list with one entry per setup.
AllSubmitted(hs) ==
    \A i \in 1..Len(hs) : HasRequests(hs[i]) /\ Len(Get(hs[i].requests)) = NSetups(hs[i])

\* No histogram of hs carries a 'requests' list.
NoneSubmitted(hs) == \A i \in 1..Len(hs) : ~HasRequests(hs[i])

\* C31 (as claimed): after any sequence of submit_request calls, calls that
\* fail partway because a creation call raises included, no setup was posted
\* more than once (the server holds at most one job per setup), and either
\* every histogram carries a complete 'requests' list, in memory and in the
\* job file, or none does.
C31_AllOrNothing ==
    /\ Len(tokens) <= TotalSetups(histograms)
    /\ \/ AllSubmitted(histograms) /\ AllSubmitted(Get(file).histograms)
       \/ NoneSubmitted(histograms) /\ NoneSubmitted(Get(file).histograms)

\* C35: request_result returns True exactly when its round leaves no entry
\* marked 'submitted'; a round that returns made one status check for each
\* entry that was marked 'submitted' and none for the others; and a round
\* never changes an entry that already holds a result.
C35_RoundOfRequestResult ==
    /\ [](lastRound.valid =>
            /\ lastRound.finished <=> (lastRound.after = 0)
            /\ lastRound.checks = lastRound.before)
    /\ [][(RequestResultCall \/ RequestLoop) =>
            \A i \in 1..Len(histograms) : HasRequests(histograms[i]) =>
                \A j \in 1..Len(Get(histograms[i].requests)) :
                    Get(histograms[i].requests)[j].state = "done" =>
                        /\ HasRequests(histograms'[i])
                        /\ Get(histograms'[i].requests)[j] =
                              Get(histograms[i].requests)[j]]_vars

\* A round over three entries, one of which held a result already: two
\* checks were made, one entry is still 'submitted', the round returned False.
C35_Witness ==
    /\ lastRound.valid
    /\ lastRound.before = 2
    /\ lastRound.checks = 2
    /\ lastRound.after = 1
    /\ ~lastRound.finished
    /\ Len(histograms) = 1
    /\ Len(Get(histograms[1].requests)) = 3

\* result(), for one histogram whose requests all hold a result: the
\* 'histogram' and 'fiducial_mean' of the results, in the order of 'requests'.
ResultOutput(h) ==
    [histogram     |-> [j \in 1..Len(Get(h.requests)) |->
                           Get(Get(h.requests)[j].result).histogram],
     fiducial_mean |-> [j \in 1..Len(Get(h.requests)) |->
                           Get(Get(h.requests)[j].result).fiducial_mean]]

\* The setup a creation call was made for: the four values it posted.
PostedSetup(body) == <<body.muR, body.muF, body.pdf, body.pdf_member>>

\* C34: results are kept by request index: whatever the order in which the
\* server completes the jobs, requests[j] holds the token issued for setup
\* variations[j] and, once polled as completed, the result of that token;
\* result() lists the values in that index order, the central one first.
C34_ResultsByIndex ==
    \A i \in 1..Len(histograms) : HasRequests(histograms[i]) =>
        LET h  == histograms[i]
            rq == Get(h.requests)
        IN  /\ \A j \in 1..Len(rq) :
                  /\ rq[j].token \in 1..Len(tokens)
                  /\ PostedSetup(tokens[rq[j].token].body) =
                        IF IsSome(h.variations)
                        THEN <<Some(Get(h.variations)[j][1]), Some(Get(h.variations)[j][2]),
                               Some(Get(h.variations)[j][3]), Some(Get(h.variations)[j][4])>>
                        ELSE <<None, None, None, None>>
                  /\ rq[j].state = "done" =>
                        /\ tokens[rq[j].token].status = "completed"
                        /\ rq[j].result = Some(ResultOf(rq[j].token))
            /\ (Len(rq) > 0 /\ \A j \in 1..Len(rq) : rq[j].state = "done") =>
                  /\ ResultOutput(h).histogram =
                        [j \in 1..Len(rq) |-> ResultOf(rq[j].token).histogram]
                  /\ ResultOutput(h).fiducial_mean[1] =
                        ResultOf(rq[1].token).fiducial_mean

\* A histogram of three setups whose second job was completed and polled
\* while the first, the central one, is still running.
C34_Witness ==
    /\ Len(histograms) = 1
    /\ HasRequests(histograms[1])
    /\ Len(Get(histograms[1].requests)) = 3
    /\ Get(histograms[1].requests)[1].state = "submitted"
    /\ Get(histograms[1].requests)[2].state = "done"
    /\ tokens[Get(histograms[1].requests)[1].token].status = "running"

\* A setter of one histogram, or read_json, that returned to its caller.
SetterReturns ==
    /\ \/ Description \/ Contribution \/ Binning \/ Scales \/ Pdf
       \/ ScaleVariation \/ PdfVariation \/ SetCustomVariation \/ Cuts \/ ReadJson
    /\ ~Get(lastCall').raised

\* submit_request() that returned: every creation call it made succeeded.
SubmitRequestReturns ==
    /\ SubmitRequest
    /\ SubmitReturns(Len(tokens') - Len(tokens))

\* request_result() that returned: every status check it made succeeded.
RequestResultReturns ==
    /\ RequestResultCall
    /\ \E b \in RoundInputs :
          ~RequestResult(histograms, tokens, b).raised /\ RoundEffect(b)

\* C36: after every public mutating operation of Interface returns, the job
\* file equals the job in memory: proc, valid_contributions, custom_variables
\* and histograms.
C36_FileEqualsMemory ==
    [][(\/ DefineNewVariable \/ LoadVariableDefinitions \/ AddHistogram
        \/ SetterReturns \/ SubmitRequestReturns \/ RequestResultReturns) =>
          file' = Some(Stored(proc', valid_contributions', custom_variables',
                              histograms'))]_vars

----------------------------------------------------------------------------
(* datahandler.py                                                          *)

RECURSIVE SeqMax(_)
SeqMax(q) == IF Len(q) = 1 THEN q[1]
             ELSE LET m == SeqMax(Tail(q)) IN IF q[1] > m THEN q[1] ELSE m
\* A minimum that is always the central value.
SeqMin_Central(q) == q[1]

RECURSIVE SeqMin(_)
SeqMin(q) == IF Len(q) = 1 THEN q[1]
             ELSE LET m == SeqMin(Tail(q)) IN IF q[1] < m THEN q[1] ELSE m

\* A maximum that leaves out the second deviation: max(0, a).
Max0_FirstOnly(a, b) == IF a > 0 THEN a ELSE 0

Max0(a, b) == IF a > b THEN (IF a > 0 THEN a ELSE 0) ELSE (IF b > 0 THEN b ELSE 0)

\* A float the engine computes. "lin": the number num. "sqrt": the number
\* sign * scale * sqrt(num / den). "nan": not a number.
Lin(n) == [kind |-> "lin", sign |-> 1, num |-> n, den |-> 1, scale |-> 1]
Sqrt(sg, n, d, f) == [kind |-> "sqrt", sign |-> sg, num |-> n, den |-> d, scale |-> f]
NaN == [kind |-> "nan", sign |-> 1, num |-> 0, den |-> 1, scale |-> 1]

\* np.sqrt(num / den) * rescale_factor, num and den >= 0: 0/0 is nan.
SqrtOf(sg, n, d, f) == IF d = 0 THEN NaN ELSE Sqrt(sg, n, d, f)

\* sum((values - central)**2)
SumSq(values) == SeqSum([k \in 1..Len(values) |->
                            (values[k] - values[1]) * (values[k] - values[1])])

\* The methods compute_sys_error knows, and one it does not.
Methods == {"envelope", "replicas", "hessian", "symmhessian"}

\* A hessian branch that computes with npairs = (len(values)-1)//2: the pairs
\* are combined and a last member without partner is left out.
Hessian_DropsUnpaired(values, method, f) ==
    [raised |-> FALSE, method |-> method,
     pos |-> Sqrt(1, SeqSum([i \in 1..((Len(values) - 1) \div 2) |->
                Max0(values[2 * i] - values[1], values[2 * i + 1] - values[1])
                * Max0(values[2 * i] - values[1], values[2 * i + 1] - values[1])]),
              1, f),
     neg |-> Sqrt(-1, SeqSum([i \in 1..((Len(values) - 1) \div 2) |->
                Max0(values[1] - values[2 * i], values[1] - values[2 * i + 1])
                * Max0(values[1] - values[2 * i], values[1] - values[2 * i + 1])]),
              1, f)]

\* compute_sys_error, the 'hessian' branch: npairs = (len(values)-1)/2 is a
\* float, and range(0, npairs) raises TypeError before any member is read.
Hessian(values, method, f) ==
    [raised |-> TRUE, method |-> method, pos |-> Lin(0), neg |-> Lin(0)]

\* compute_sys_error(values, method, rescale_factor). 'hessian' raises
\* TypeError: npairs = (len(values)-1)/2 is a float and range(0, npairs)
\* does not take one.
ComputeSysError(values, method, f) ==
    IF Len(values) = 0
    THEN [raised |-> FALSE, method |-> method, pos |-> Lin(0), neg |-> Lin(0)]
    ELSE CASE method = "envelope" ->
                [raised |-> FALSE, method |-> method,
                 pos |-> Lin((SeqMax(values) - values[1]) * f),
                 neg |-> Lin((values[1] - SeqMin(values)) * f)]
           [] method = "replicas" ->
                [raised |-> FALSE, method |-> method,
                 pos |-> SqrtOf(1, SumSq(values), Len(values) - 1, f),
                 neg |-> SqrtOf(-1, SumSq(values), Len(values) - 1, f)]
           [] method = "hessian" -> Hessian(values, method, f)
           [] method = "symmhessian" ->
                [raised |-> FALSE, method |-> method,
                 pos |-> Sqrt(1, SeqSum([k \in 1..(Len(values) - 1) |->
                            Max0(values[k + 1] - values[1], values[1] - values[k + 1])
                            * Max0(values[k + 1] - values[1], values[1] - values[k + 1])]),
                          1, f),
                 neg |-> Sqrt(-1, SeqSum([k \in 1..(Len(values) - 1) |->
                            Max0(values[k + 1] - values[1], values[1] - values[k + 1])
                            * Max0(values[k + 1] - values[1], values[1] - values[k + 1])]),
                          1, f)]
           [] OTHER ->
                [raised |-> FALSE, method |-> method, pos |-> Lin(0), neg |-> Lin(0)]

\* The {'method', 'pos', 'neg'} dict compute_uncertainty appends.
Entry(e) == [method |-> e.method, pos |-> e.pos, neg |-> e.neg]

\* An is_compatible that compares the lower edge of each bin only.
IsCompatible_LowerEdgeOnly(rs, data) ==
    /\ Len(rs.histograms) = Len(data.histograms)
    /\ \A it \in 1..Len(rs.histograms) :
        /\ Len(rs.histograms[it].binning) = Len(data.histograms[it].binning)
        /\ \A jt \in 1..Len(rs.histograms[it].binning) :
              rs.histograms[it].binning[jt].edges[1]
                  = data.histograms[it].binning[jt].edges[1]

\* is_compatible(data): against self.result
IsCompatible(rs, data) ==
    /\ Len(rs.histograms) = Len(data.histograms)
    /\ \A it \in 1..Len(rs.histograms) :
        /\ Len(rs.histograms[it].binning) = Len(data.histograms[it].binning)
        /\ \A jt \in 1..Len(rs.histograms[it].binning) :
              rs.histograms[it].binning[jt].edges
                  = data.histograms[it].binning[jt].edges

\* A compute_uncertainty that combines the central mean with the mean of the
\* last item of raw_data only.
VarValues_CentralAndLast(rd, it, jt) ==
    IF Len(rd) = 1 THEN <<rd[1].histograms[it].binning[jt].mean>>
    ELSE <<rd[1].histograms[it].binning[jt].mean,
           rd[Len(rd)].histograms[it].binning[jt].mean>>

\* compute_uncertainty: the means of bin jt of histogram it over raw_data.
VarValues(rd, it, jt) ==
    [kt \in 1..Len(rd) |-> rd[kt].histograms[it].binning[jt].mean]

\* compute_uncertainty: the fiducial means over raw_data.
FiducialValues(rd) == [kt \in 1..Len(rd) |-> rd[kt].fiducial_mean]

\* compute_uncertainty raises when compute_sys_error does.
ComputeRaises(rd, method, f) ==
    ComputeSysError(FiducialValues(rd), method, f).raised

\* The histograms of self.result after compute_uncertainty: every bin has
\* one more sys_error entry.
WithSysErrors(hists, rd, method, f) ==
    [it \in 1..Len(hists) |->
        [hists[it] EXCEPT !.binning =
            [jt \in 1..Len(hists[it].binning) |->
                [hists[it].binning[jt] EXCEPT !.sys_error =
                    Appended(@, Entry(ComputeSysError(VarValues(rd, it, jt),
                                                      method, f)))]]]]

----------------------------------------------------------------------------
(* SpecData: one DataHandler, built on a central result, fed variation     *)
(* results and asked for uncertainties.                                    *)

MaxAdd == 2       \* add_data calls
MaxCompute == 2   \* compute_uncertainty calls

\* The values the means of the input data are built from.
Values == {1, 3}

\* rescale_factor
Rescales == {1, 2}

\* What add_data is given: data binned like the central result, or with one
\* edge moved, one bin less, one histogram less.
Shapes == {"same", "edges", "bins", "hists"}

\* One bin of the input: no 'sys_error' key yet.
Bin(lo, hi, m) == [edges |-> <<lo, hi>>, mean |-> m, error |-> 1, sys_error |-> None]

\* The result of one request, as Interface.result() hands it over.
MakeData(v, shape) ==
    LET h1 == [name |-> "h1",
               binning |-> IF shape = "bins" THEN <<Bin(0, 1, v)>>
                           ELSE <<Bin(0, 1, v), Bin(1, 2, 2 * v + 1)>>]
        h2 == [name |-> "h2",
               binning |-> <<Bin(0, IF shape = "edges" THEN 5 ELSE 4, v + 2)>>]
    IN [histograms |-> IF shape = "hists" THEN <<h1>> ELSE <<h1, h2>>,
        fiducial_mean |-> 3 * v + 1]

\* methods compute_uncertainty is asked for
MethodInputs == Methods \cup {"unknown"}

\* __init__(data): raw_data = [data], result = data.copy(); the copy is
\* shallow, the histograms of result are those of raw_data[0].
InitDataVars ==
    \E v \in Values :
        /\ raw_data = <<MakeData(v, "same")>>
        /\ result = [histograms |-> MakeData(v, "same").histograms,
                     fiducial_mean |-> MakeData(v, "same").fiducial_mean,
                     fiducial_sys_error |-> None]
        /\ calls = <<>>
        /\ adds = 0
        /\ lastAdd = None

\* How add_data ends: it returns None after appending, or returns None after
\* printing "ERROR tried to combine incompatible data sets"; it has no raise.
AddDataOutcome(rs, data) == IF IsCompatible(rs, data) THEN "appended" ELSE "printed"

\* An add_data that appends whatever it is given.
AddedTo_Unchecked(rd, rs, data) == Append(rd, data)

\* add_data: raw_data after the call. raw_data is never empty, so the first
\* branch of the method is not taken.
AddedTo(rd, rs, data) == IF IsCompatible(rs, data) THEN Append(rd, data) ELSE rd

\* add_data(data)
AddData ==
    \E v \in Values, shape \in Shapes :
        /\ adds < MaxAdd
        /\ adds' = adds + 1
        /\ raw_data' = AddedTo(raw_data, result, MakeData(v, shape))
        /\ lastAdd' = Some([compatible |-> IsCompatible(result, MakeData(v, shape)),
                            out |-> AddDataOutcome(result, MakeData(v, shape))])
        /\ UNCHANGED <<result, calls>>
        /\ UNCHANGED nonDataVars

\* A compute_uncertainty that writes the bins of every item of raw_data.
WrittenThrough_EveryItem(rd, hists) ==
    [kt \in 1..Len(rd) |-> [rd[kt] EXCEPT !.histograms = hists]]

\* raw_data after the bins of self.result were written: result is a shallow
\* copy, its histograms are the very objects of raw_data[0], and of no other
\* item.
WrittenThrough(rd, hists) == [rd EXCEPT ![1].histograms = hists]

\* compute_uncertainty(method, rescale_factor)
ComputeUncertainty ==
    \E method \in MethodInputs, f \in Rescales :
        /\ Len(calls) < MaxCompute
        /\ calls' = Append(calls, [method |-> method, factor |-> f,
                                   nraw |-> Len(raw_data),
                                   raised |-> ComputeRaises(raw_data, method, f)])
        /\ IF ComputeRaises(raw_data, method, f)
           THEN UNCHANGED <<raw_data, result>>
           ELSE /\ result' =
                     [result EXCEPT
                        !.histograms = WithSysErrors(@, raw_data, method, f),
                        !.fiducial_sys_error =
                            Appended(@, Entry(ComputeSysError(
                                FiducialValues(raw_data), method, f)))]
                /\ raw_data' =
                     WrittenThrough(raw_data,
                         WithSysErrors(result.histograms, raw_data, method, f))
        /\ UNCHANGED <<adds, lastAdd>>
        /\ UNCHANGED nonDataVars

NextData == AddData \/ ComputeUncertainty

InitData ==
    /\ InitDataVars
    /\ IdlePoll /\ IdleJob /\ IdleCompat /\ IdleCombine /\ IdleCompile /\ IdleCli

SpecData == InitData /\ [][NextData]_vars

----------------------------------------------------------------------------
(* Claims on SpecData                                                      *)

\* The list behind an optional 'sys_error' key.
ListOf(o) == IF IsSome(o) THEN Get(o) ELSE <<>>

\* The bins of the result, as <<histogram, bin>> index pairs.
BinsOf(r) == UNION {{<<it, jt>> : jt \in 1..Len(r.histograms[it].binning)} :
                        it \in 1..Len(r.histograms)}

\* The sys_error list of bin b of the result.
SysErrorOf(b) == ListOf(result.histograms[b[1]].binning[b[2]].sys_error)

\* The calls that returned, in order.
Returned == SelectSeq(calls, LAMBDA c : ~c.raised)

\* C9 (as claimed): after n compute_uncertainty calls with methods m1..mn,
\* every bin of every histogram has a sys_error list of length n whose i-th
\* entry has method mi, and fiducial_sys_error has length n with the same
\* methods in the same order.
C9_OneEntryPerCall ==
    /\ \A b \in BinsOf(result) :
          /\ Len(SysErrorOf(b)) = Len(calls)
          /\ \A i \in 1..Len(SysErrorOf(b)) : SysErrorOf(b)[i].method = calls[i].method
    /\ Len(ListOf(result.fiducial_sys_error)) = Len(calls)
    /\ \A i \in 1..Len(ListOf(result.fiducial_sys_error)) :
          ListOf(result.fiducial_sys_error)[i].method = calls[i].method

\* The means of bin b over the items first..last of raw_data, behind the
\* central one.
MeansOver(b, first, last) ==
    <<raw_data[1].histograms[b[1]].binning[b[2]].mean>>
    \o [k \in 1..(last - first + 1) |->
            raw_data[first + k - 1].histograms[b[1]].binning[b[2]].mean]

\* len(raw_data) at the call before the i-th one that returned (1 before the
\* first: the central result alone).
NrawBefore(i) == IF i = 1 THEN 1 ELSE Returned[i - 1].nraw

\* C10 (as claimed): the sys_error entry of the i-th call is computed from
\* the central value and the variation results added for that call alone:
\* those added before an earlier call take no part in it.
C10_OwnMembersOnly ==
    \A b \in BinsOf(result) : \A i \in 1..Len(SysErrorOf(b)) :
        i <= Len(Returned) =>
            SysErrorOf(b)[i] =
                Entry(ComputeSysError(MeansOver(b, NrawBefore(i) + 1, Returned[i].nraw),
                                      Returned[i].method, Returned[i].factor))

\* C10 (amended): the sys_error entry of the i-th call that returned is
\* computed from the central value and every variation result added before
\* that call, in the order of addition, those added before earlier calls
\* included; there is one entry per call that returned, and later calls and
\* additions leave it as it was.
C10_AllMembersSoFar ==
    \A b \in BinsOf(result) :
        /\ Len(SysErrorOf(b)) = Len(Returned)
        /\ \A i \in 1..Len(Returned) :
              SysErrorOf(b)[i] =
                  Entry(ComputeSysError(MeansOver(b, 2, Returned[i].nraw),
                                        Returned[i].method, Returned[i].factor))

\* C10 witness: members added, a call, more members added, a second call
\* whose entry differs from what its own members alone would give.
C10_Witness ==
    /\ Len(Returned) = 2
    /\ 1 < Returned[1].nraw
    /\ Returned[1].nraw < Returned[2].nraw
    /\ \E b \in BinsOf(result) :
          /\ Len(SysErrorOf(b)) = 2
          /\ SysErrorOf(b)[2] #
                Entry(ComputeSysError(MeansOver(b, Returned[1].nraw + 1, Returned[2].nraw),
                                      Returned[2].method, Returned[2].factor))

\* C11 (as claimed): add_data given a result whose binning is not compatible
\* with the central result ends with an IncompatibleData error instead of
\* returning normally.
C11_IncompatibleFailsFast ==
    (IsSome(lastAdd) /\ ~Get(lastAdd).compatible) => Get(lastAdd).out = "IncompatibleData"

----------------------------------------------------------------------------
(* SpecCompat: is_compatible alone, on a handler built on a central result *)
(* and a data argument drawn from results of every binning.                *)

MaxHistograms == 2   \* histograms of the data argument
MaxBins == 2         \* bins of one histogram of the data argument

\* The sequences over S of length at most n.
SeqsUpTo(S, n) == UNION {[1..k -> S] : k \in 0..n}

\* By how much the upper edge of a bin is moved.
Deltas == {0, 1}

\* The 'error' values of the data argument.
Errors == {1, 2}

\* The edges of bin jt of histogram it in the central result.
CentralEdges(it, jt) == IF it = 2 THEN <<4 * (jt - 1), 4 * jt>> ELSE <<jt - 1, jt>>

\* A result with one histogram per entry of shape and one bin per entry of
\* that: the edges are those of the central result, the upper one moved by
\* the entry; the means are built from v, the errors are e.
DataOf(shape, v, e) ==
    [histograms |->
        [it \in 1..Len(shape) |->
            [name |-> "h",
             binning |->
                [jt \in 1..Len(shape[it]) |->
                    [edges |-> <<CentralEdges(it, jt)[1],
                                 CentralEdges(it, jt)[2] + shape[it][jt]>>,
                     mean |-> v * jt + it, error |-> e, sys_error |-> None]]]],
     fiducial_mean |-> 3 * v + 1]

GivenInputs ==
    {DataOf(shape, v, e) : shape \in SeqsUpTo(SeqsUpTo(Deltas, MaxBins), MaxHistograms),
                           v \in Values, e \in Errors}

\* DataHandler(central), and the argument of the call to come.
InitCompat ==
    /\ InitDataVars
    /\ given \in GivenInputs
    /\ test = None
    /\ IdlePoll /\ IdleJob /\ IdleCombine /\ IdleCompile /\ IdleCli

\* is_compatible(data)
IsCompatibleCall ==
    /\ test = None
    /\ test' = Some(IsCompatible(result, given))
    /\ UNCHANGED given
    /\ UNCHANGED nonCompatVars

NextCompat == IsCompatibleCall

SpecCompat == InitCompat /\ [][NextCompat]_vars

\* The edges of a result, histogram by histogram, bin by bin.
EdgesOf(d) ==
    [it \in 1..Len(d.histograms) |->
        [jt \in 1..Len(d.histograms[it].binning) |->
            d.histograms[it].binning[jt].edges]]

\* C12: is_compatible(data) returns True if and only if data has as many
\* histograms as the central result, every histogram as many bins, and every
\* bin exactly the same edges; the means and errors play no part.
C12_CompatibleIffSameEdges ==
    IsSome(test) => (Get(test) <=> EdgesOf(result) = EdgesOf(given))

\* C12 witness: a result accepted although all its means and errors differ
\* from those of the central result.
C12_Witness ==
    /\ IsSome(test) /\ Get(test)
    /\ \A it \in 1..Len(result.histograms) :
          \A jt \in 1..Len(result.histograms[it].binning) :
              /\ given.histograms[it].binning[jt].mean
                    # result.histograms[it].binning[jt].mean
              /\ given.histograms[it].binning[jt].error
                    # result.histograms[it].binning[jt].error

----------------------------------------------------------------------------
(* More claims on SpecData                                                 *)

\* The results add_data can be given and accepts, as they are passed.
AcceptedInputs == {MakeData(v, "same") : v \in Values}

\* C13: the results passed to add_data are never changed: every item of
\* raw_data behind the central one is as it was passed (its means, errors and
\* edges, no sys_error in its bins, no fiducial_sys_error key), and no call
\* changes an item it already holds.
C13_InputsUntouched ==
    /\ [](\A kt \in 2..Len(raw_data) : raw_data[kt] \in AcceptedInputs)
    /\ [][\A kt \in 2..Len(raw_data) : raw_data'[kt] = raw_data[kt]]_vars

\* C13 witness: two results were added and uncertainties computed over them
\* twice; the bins of the central result carry the entries.
C13_Witness ==
    /\ Len(raw_data) = 3
    /\ Len(Returned) = 2
    /\ Returned[1].nraw = 3
    /\ \A b \in BinsOf(result) :
          Len(ListOf(raw_data[1].histograms[b[1]].binning[b[2]].sys_error)) = 2

\* C33 (as claimed): the result is an independent copy of the constructor's
\* data: after any sequence of compute_uncertainty calls no bin of
\* raw_data[0] carries a sys_error entry.
C33_CentralUntouched ==
    \A b \in BinsOf(raw_data[1]) :
        ~IsSome(raw_data[1].histograms[b[1]].binning[b[2]].sys_error)

\* What the caller put into a data object: edges, means and errors.
InputOf(d) ==
    [histograms |->
        [it \in 1..Len(d.histograms) |->
            [jt \in 1..Len(d.histograms[it].binning) |->
                [edges |-> d.histograms[it].binning[jt].edges,
                 mean  |-> d.histograms[it].binning[jt].mean,
                 error |-> d.histograms[it].binning[jt].error]]],
     fiducial_mean |-> d.fiducial_mean]

\* C39: an add_data that is given data incompatible with the central result
\* leaves raw_data and result exactly as they were, so that later calls see
\* what they would have seen without it; raw_data is never empty and its
\* first item stays the constructor's data.
C39_RejectedAddChangesNothing ==
    /\ [](Len(raw_data) >= 1)
    /\ [][(adds' = adds + 1 /\ ~Get(lastAdd').compatible)
            => (raw_data' = raw_data /\ result' = result)]_vars
    /\ [][InputOf(raw_data'[1]) = InputOf(raw_data[1])]_vars

\* A variation was added, another one was rejected, and an uncertainty was
\* then computed from the central result and the one variation.
C39_Witness ==
    /\ IsSome(lastAdd)
    /\ ~Get(lastAdd).compatible
    /\ adds = 2
    /\ Len(raw_data) = 2
    /\ Len(Returned) = 1
    /\ Returned[1].nraw = 2

----------------------------------------------------------------------------
(* SpecCombine: compute_sys_error alone, on arguments drawn from lists of  *)
(* values, the methods and the rescale factors.                            *)

MaxLen == 3   \* len(values)

\* The floats of the lists.
CombineValues == {90, 100, 115}

ArgInputs ==
    [values : SeqsUpTo(CombineValues, MaxLen),
     method : MethodInputs,
     rescale_factor : Rescales]

InitCombine ==
    /\ args \in ArgInputs
    /\ ret = None
    /\ IdlePoll /\ IdleJob /\ IdleData /\ IdleCompat /\ IdleCompile /\ IdleCli

\* compute_sys_error(values, method, rescale_factor)
ComputeSysErrorCall ==
    /\ ret = None
    /\ ret' = Some(ComputeSysError(args.values, args.method, args.rescale_factor))
    /\ UNCHANGED args
    /\ UNCHANGED nonCombineVars

NextCombine == ComputeSysErrorCall

SpecCombine == InitCombine /\ [][NextCombine]_vars

\* Floats as Python compares them: nan equals nothing, -0.0 equals 0.0.
IsNaN(x) == x.kind = "nan"
IsZero(x) == ~IsNaN(x) /\ x.num = 0

\* The square of a float that is not nan, as the fraction n/d.
SqNum(x) == IF x.kind = "lin" THEN x.num * x.num ELSE x.num * x.scale * x.scale
SqDen(x) == x.den

\* The sign of a float that is not nan: -1, 0 or 1.
SignOf(x) == IF IsZero(x) THEN 0
             ELSE IF x.kind = "lin" THEN (IF x.num > 0 THEN 1 ELSE -1)
             ELSE x.sign

\* a == b
FloatEq(a, b) ==
    /\ ~IsNaN(a) /\ ~IsNaN(b)
    /\ SignOf(a) = SignOf(b)
    /\ SqNum(a) * SqDen(b) = SqNum(b) * SqDen(a)

\* -x
Negated(x) == IF x.kind = "lin" THEN [x EXCEPT !.num = -x.num]
              ELSE [x EXCEPT !.sign = -x.sign]

\* The call was made with this method.
Called(m) == IsSome(ret) /\ args.method = m

\* values[j] - central
Dev(j) == args.values[j] - args.values[1]

\* C14 (as claimed): compute_sys_error called with a method that is not one
\* of the supported ones fails with an error and returns no
\* {method, pos, neg} entry.
C14_UnknownMethodFails ==
    (IsSome(ret) /\ args.method \notin Methods) => Get(ret).raised

\* C15 (as claimed): for every supported method, combining the one-element
\* list [v] returns pos = 0 and neg = 0, without raising and without an
\* undefined value.
C15_CentralOnlyGivesZero ==
    (IsSome(ret) /\ args.method \in Methods /\ Len(args.values) = 1) =>
        /\ ~Get(ret).raised
        /\ IsZero(Get(ret).pos)
        /\ IsZero(Get(ret).neg)

\* C16: for method envelope and a non-empty list, pos is
\* (max(values) - central) * rescale_factor and neg is
\* (central - min(values)) * rescale_factor; with rescale_factor 1 both are
\* >= 0 and pos - neg = max(values) + min(values) - 2 * central;
\* [100, 115, 90] gives pos 15 and neg 10.
C16_Envelope ==
    (Called("envelope") /\ Len(args.values) >= 1) =>
        LET r == Get(ret)
            f == args.rescale_factor
            n == Len(args.values)
        IN /\ ~r.raised
           /\ r.method = "envelope"
           /\ r.pos.kind = "lin" /\ r.neg.kind = "lin"
           /\ \E j \in 1..n : r.pos.num = Dev(j) * f
           /\ \A j \in 1..n : r.pos.num >= Dev(j) * f
           /\ \E j \in 1..n : r.neg.num = (-Dev(j)) * f
           /\ \A j \in 1..n : r.neg.num >= (-Dev(j)) * f
           /\ f = 1 =>
                 /\ r.pos.num >= 0 /\ r.neg.num >= 0
                 /\ \E i, j \in 1..n :
                       /\ \A k \in 1..n : args.values[k] <= args.values[i]
                       /\ \A k \in 1..n : args.values[k] >= args.values[j]
                       /\ r.pos.num - r.neg.num
                            = args.values[i] + args.values[j] - 2 * args.values[1]
           /\ (args.values = <<100, 115, 90>> /\ f = 1) =>
                 (r.pos.num = 15 /\ r.neg.num = 10)

\* C16 witness: the envelope of [100, 115, 90] was computed.
C16_Witness ==
    /\ Called("envelope")
    /\ args.values = <<100, 115, 90>>
    /\ args.rescale_factor = 1
    /\ Get(ret).pos = Lin(15)
    /\ Get(ret).neg = Lin(10)

\* C17 (as claimed): for method replicas with k >= 2 members behind the
\* central value, pos is the sample standard deviation of the members about
\* the central value with divisor k - 1:
\* pos^2 * (k - 1) = rescale_factor^2 * sum of (v_i - central)^2.
C17_ReplicasDivisor ==
    (Called("replicas") /\ Len(args.values) >= 3) =>
        LET r == Get(ret)
            k == Len(args.values) - 1
            f == args.rescale_factor
        IN /\ ~r.raised
           /\ ~IsNaN(r.pos)
           /\ SqNum(r.pos) * (k - 1)
                = SqDen(r.pos) * f * f * SeqSum([j \in 1..k |-> Dev(j + 1) * Dev(j + 1)])

\* C18 (as claimed): for method replicas and every list of values, the neg
\* returned equals the negation of the pos returned: neg == -pos.
C18_ReplicasSymmetric ==
    Called("replicas") =>
        /\ ~Get(ret).raised
        /\ FloatEq(Get(ret).neg, Negated(Get(ret).pos))

\* C19 (as claimed): for method hessian and a central value followed by 2m
\* members (m >= 1), compute_sys_error returns a result, with
\* pos^2 = sum over the pairs of max(0, d(2i+1), d(2i+2))^2 and
\* neg^2 = sum over the pairs of max(0, -d(2i+1), -d(2i+2))^2.
C19_HessianPairs ==
    (Called("hessian") /\ Len(args.values) >= 3 /\ (Len(args.values) - 1) % 2 = 0) =>
        LET r == Get(ret)
            m == (Len(args.values) - 1) \div 2
            f == args.rescale_factor
        IN /\ ~r.raised
           /\ ~IsNaN(r.pos) /\ ~IsNaN(r.neg)
           /\ SqNum(r.pos) = SqDen(r.pos) * f * f
                * SeqSum([i \in 1..m |-> Max0(Dev(2 * i), Dev(2 * i + 1))
                                          * Max0(Dev(2 * i), Dev(2 * i + 1))])
           /\ SqNum(r.neg) = SqDen(r.neg) * f * f
                * SeqSum([i \in 1..m |-> Max0(-Dev(2 * i), -Dev(2 * i + 1))
                                          * Max0(-Dev(2 * i), -Dev(2 * i + 1))])

\* C20 (as claimed): for method symmhessian each member contributes to one
\* side only: pos^2 = sum of max(0, v_i - central)^2 and
\* neg^2 = sum of max(0, central - v_i)^2.
C20_OneSidedMembers ==
    (Called("symmhessian") /\ Len(args.values) >= 1) =>
        LET r == Get(ret)
            k == Len(args.values) - 1
            f == args.rescale_factor
        IN /\ ~r.raised
           /\ SqNum(r.pos) = SqDen(r.pos) * f * f
                * SeqSum([j \in 1..k |-> Max0(Dev(j + 1), 0) * Max0(Dev(j + 1), 0)])
           /\ SqNum(r.neg) = SqDen(r.neg) * f * f
                * SeqSum([j \in 1..k |-> Max0(-Dev(j + 1), 0) * Max0(-Dev(j + 1), 0)])

\* C20 (amended): for method symmhessian each member contributes the square
\* of its deviation to both sides, whatever its sign:
\* pos^2 = neg^2 = rescale_factor^2 * sum of (v_i - central)^2, pos >= 0 and
\* neg = -pos.
C20_BothSides ==
    (Called("symmhessian") /\ Len(args.values) >= 1) =>
        LET r == Get(ret)
            k == Len(args.values) - 1
            f == args.rescale_factor
        IN /\ ~r.raised
           /\ r.method = "symmhessian"
           /\ ~IsNaN(r.pos) /\ ~IsNaN(r.neg)
           /\ SqNum(r.pos) = SqDen(r.pos) * f * f
                * SeqSum([j \in 1..k |-> Dev(j + 1) * Dev(j + 1)])
           /\ SqNum(r.neg) = SqDen(r.neg) * f * f
                * SeqSum([j \in 1..k |-> Dev(j + 1) * Dev(j + 1)])
           /\ SignOf(r.pos) >= 0
           /\ FloatEq(r.neg, Negated(r.pos))

\* C20 witness: one member above and one below the central value, and a neg
\* that carries both.
C20_Witness ==
    /\ Called("symmhessian")
    /\ args.values = <<100, 115, 90>>
    /\ args.rescale_factor = 1
    /\ SqNum(Get(ret).pos) = 325
    /\ SqNum(Get(ret).neg) = 325
    /\ SignOf(Get(ret).neg) = -1

NonNegative(e) ==
    /\ ~IsNaN(e.pos) /\ SignOf(e.pos) >= 0
    /\ ~IsNaN(e.neg) /\ SignOf(e.neg) >= 0

\* C22 (as claimed): every entry that compute_uncertainty appends to a bin's
\* sys_error list or to fiducial_sys_error, for a supported method and
\* rescale_factor 1, has pos >= 0 and neg >= 0. Stated for the calls made
\* with at least one variation result added.
C22_NonNegativeEntries ==
    \A i \in 1..Len(Returned) :
        (Returned[i].method \in Methods /\ Returned[i].factor = 1
            /\ Returned[i].nraw >= 2) =>
            /\ \A b \in BinsOf(result) :
                  i <= Len(SysErrorOf(b)) => NonNegative(SysErrorOf(b)[i])
            /\ i <= Len(ListOf(result.fiducial_sys_error)) =>
                  NonNegative(ListOf(result.fiducial_sys_error)[i])

----------------------------------------------------------------------------
(* SpecCompile: submit_request on a job of one histogram of process p1     *)

MaxVariations == 2

\* The declarations a caller makes: scale_variation, pdf_variation,
\* set_custom_variation with one setup, with two setups.
VariationCalls == {"3-point", "7-point", "pdf", "custom1", "custom2"}

CustomSetups(c) ==
    IF c = "custom1"
    THEN << <<Scaled("muR0", "*4"), Scaled("muF0", "*4"), "pdfA", 0>> >>
    ELSE << <<Scaled("muR0", "*3"), Scaled("muF0", ""), "pdfA", 0>>,
            <<Scaled("muR0", ""), Scaled("muF0", "*3"), "pdfN", 1>> >>

Declared(h, c) ==
    CASE c \in {"3-point", "7-point"} -> WithScaleVariation(h, c)
      [] c = "pdf"                    -> WithPdfVariation(h)
      [] OTHER                        -> WithCustomVariation(h, CustomSetups(c))

RECURSIVE DeclaredAll(_, _)
DeclaredAll(h, cs) ==
    IF cs = <<>> THEN h ELSE DeclaredAll(Declared(h, Head(cs)), Tail(cs))

\* add_histogram(), then scales and pdf or neither.
BaseInputs ==
    LET h0 == NewHistogram([EmptyJson EXCEPT !.name = RequestName(0)])
    IN  {h0, WithScales(h0, "m1", "m2"), WithPdf(h0, "pdfN", 1), WithPdf(h0, "pdfA", 1),
         WithPdf(WithScales(h0, "m1", "m2"), "pdfN", 1)}

HistogramInputs ==
    {DeclaredAll(b, cs) : b \in BaseInputs, cs \in SeqsUpTo(VariationCalls, MaxVariations)}

\* A job of one histogram, its declarations made, after process('p1').
InitCompile ==
    /\ hist \in HistogramInputs
    /\ stage = "declared"
    /\ shown = None
    /\ IdlePoll /\ IdleJob /\ IdleData /\ IdleCompat /\ IdleCombine /\ IdleCli

\* submit_request(), its first loop: _finalize_request(0)
FinalizeRequest ==
    /\ stage = "declared"
    /\ hist' = Finalized(hist, "p1")
    /\ stage' = "compiled"
    /\ UNCHANGED shown
    /\ UNCHANGED nonCompileVars

\* submit_request(), its second loop, every creation call answered.
SubmitSetups ==
    /\ stage = "compiled"
    /\ hist' = Submitted(<<hist>>, NSetups(hist), 0)[1]
    /\ stage' = "submitted"
    /\ UNCHANGED shown
    /\ UNCHANGED nonCompileVars

\* 'kind' in self.histograms[hid]['variation']
Declares(h, kind) ==
    IsSome(h.variation)
    /\ \E k \in 1..Len(Get(h.variation)) : Get(h.variation)[k].kind = kind

\* show_result, for one histogram: the slices [from, from + size) of the
\* lists of means it takes, in the order it takes them. setup_it starts at 1;
\* '3-point' is looked for first, then '7-point', then 'pdf', whose slice has
\* nmembers entries and needs res['info']['pdf'], a KeyError when the json
\* has no 'pdf'.
ShowResultSlices(h, md) ==
    LET s3   == IF Declares(h, "3-point")
                THEN <<[kind |-> "3-point", from |-> 1, size |-> 2]>> ELSE <<>>
        it3  == IF Declares(h, "3-point") THEN 3 ELSE 1
        s7   == IF Declares(h, "7-point")
                THEN <<[kind |-> "7-point", from |-> it3, size |-> 6]>> ELSE <<>>
        it7  == IF Declares(h, "7-point") THEN it3 + 6 ELSE it3
    IN  IF ~Declares(h, "pdf")
        THEN [slices |-> s3 \o s7, raised |-> FALSE]
        ELSE IF h.json.pdf = Absent
        THEN [slices |-> s3 \o s7, raised |-> TRUE]
        ELSE [slices |-> s3 \o s7 \o
                         <<[kind |-> "pdf", from |-> it7,
                            size |-> md.available_pdfs[h.json.pdf].nmembers]>>,
              raised |-> FALSE]

\* show_result(), once the results of the requests are there.
ShowResult ==
    /\ stage = "submitted"
    /\ shown' = Some(ShowResultSlices(hist, Metadata("p1")))
    /\ stage' = "shown"
    /\ UNCHANGED hist
    /\ UNCHANGED nonCompileVars

NextCompile == FinalizeRequest \/ SubmitSetups \/ ShowResult

SpecCompile == InitCompile /\ [][NextCompile]_vars

\* The setup of the histogram itself: its json, or the defaults of the process.
CentralSetup ==
    <<Scaled(IF hist.json.muR # Absent THEN hist.json.muR ELSE "muR0", ""),
      Scaled(IF hist.json.muF # Absent THEN hist.json.muF ELSE "muF0", ""),
      IF hist.json.pdf # Absent THEN hist.json.pdf ELSE Metadata("p1").pdf_set,
      IF IsSome(hist.json.pdf_member) THEN Get(hist.json.pdf_member)
      ELSE Metadata("p1").pdf_member>>

\* The number of setups the claim gives a declared variation.
BlockSize(var) ==
    CASE var.kind = "3-point" -> 2
      [] var.kind = "7-point" -> 6
      [] var.kind = "pdf" ->
            IF Metadata("p1").available_pdfs[CentralSetup[3]].error_method = "none"
            THEN 0
            ELSE Metadata("p1").available_pdfs[CentralSetup[3]].nmembers
      [] OTHER -> Len(var.setups)

\* The entries of the compiled list before the block of declaration k.
BlockStart(k) ==
    1 + SeqSum([i \in 1..(k - 1) |-> BlockSize(Get(hist.variation)[i])])

\* The block of declaration k is made of setups of that declaration.
BlockOf(k) ==
    LET var == Get(hist.variation)[k]
        blk == SubSeq(Get(hist.variations), BlockStart(k) + 1,
                      BlockStart(k) + BlockSize(var))
    IN  CASE var.kind \in {"3-point", "7-point"} ->
               \A j \in 1..Len(blk) :
                   /\ blk[j][3] = CentralSetup[3] /\ blk[j][4] = CentralSetup[4]
                   /\ blk[j][1][1] = CentralSetup[1][1] /\ blk[j][2][1] = CentralSetup[2][1]
                   /\ <<blk[j][1][2], blk[j][2][2]>> # <<"", "">>
          [] var.kind = "pdf" ->
               \A j \in 1..Len(blk) :
                   blk[j] = <<CentralSetup[1], CentralSetup[2], CentralSetup[3], j - 1>>
          [] OTHER -> blk = var.setups

\* C29: after _compile_variations for a histogram with declared variations
\* the compiled list holds the central setup first, then one block per
\* declaration in the order declared, of 2 setups for 3-point, 6 for 7-point,
\* nmembers for pdf (none when the set has error_method none) and the length
\* of the list for a custom variation; the histogram is submitted as one
\* sub-request per entry of the list.
C29_CompiledSetups ==
    (stage # "declared" /\ IsSome(hist.variation)) =>
        /\ IsSome(hist.variations)
        /\ Get(hist.variations)[1] = CentralSetup
        /\ Len(Get(hist.variations)) = BlockStart(Len(Get(hist.variation)) + 1)
        /\ \A k \in 1..Len(Get(hist.variation)) : BlockOf(k)
        /\ stage \in {"submitted", "shown"} =>
              (HasRequests(hist) /\ Len(Get(hist.requests)) = Len(Get(hist.variations)))

\* A 7-point and a pdf variation of the default set, submitted as 9 requests.
C29_Witness ==
    /\ stage = "submitted"
    /\ IsSome(hist.variation)
    /\ Len(Get(hist.variation)) = 2
    /\ Get(hist.variation)[1].kind = "7-point"
    /\ Get(hist.variation)[2].kind = "pdf"
    /\ hist.json.pdf = Absent
    /\ Len(Get(hist.variations)) = 9
    /\ Len(Get(hist.requests)) = 9

\* C32 (as claimed): for every list of declared variations the slice of the
\* results that show_result uses for a declared variation is the block of
\* setups _compile_variations generated for that variation: each slice used
\* is the block of a declaration of its kind, and each declared 3-point,
\* 7-point and pdf variation has its block used.
C32_SlicesAreBlocks ==
    (stage = "shown" /\ IsSome(hist.variation)) =>
        LET sl == Get(shown).slices
            vs == Get(hist.variation)
        IN  /\ \A i \in 1..Len(sl) : \E k \in 1..Len(vs) :
                   /\ vs[k].kind = sl[i].kind
                   /\ sl[i].from = BlockStart(k)
                   /\ sl[i].size = BlockSize(vs[k])
            /\ \A k \in 1..Len(vs) : vs[k].kind # "custom" =>
                   \E i \in 1..Len(sl) :
                       /\ vs[k].kind = sl[i].kind
                       /\ sl[i].from = BlockStart(k)
                       /\ sl[i].size = BlockSize(vs[k])

----------------------------------------------------------------------------
(* SpecCli: `highteacli token <token> [--plot]` (highteacli/app.py over    *)
(* highteacli/apiactions.py)                                               *)

\* The methods of highteacli.apiactions.API, which ErrorPrintAPI extends.
ApiMethods ==
    {"simple_req", "wait_token_impl", "wait_token", "list_pdfs", "list_processes",
     "request_hist", "check_token"}

\* CommandLineApp._wait_token_impl(res): what it returns, "none" when no
\* branch is taken, or "exit" for sys.exit(1).
WaitTokenImpl(s) ==
    IF s \in {"pending", "runnung"} THEN "false"
    ELSE IF s = "errored" THEN "exit"
    ELSE IF s = "completed" THEN "true"
    ELSE "none"

\* API.wait_token_impl of highteacli.apiactions, after its yield.
CliAfterYield(s) ==
    IF s \in {"pending", "running"} THEN "sleep"
    ELSE IF s \in {"errored", "completed"} THEN "return"
    ELSE "next"

\* A RequestProblem raised by API.simple_req: check_token calls simple_req,
\* which does not go through simple_req_no_json, so the handler of
\* ErrorPrintAPI is not on the way: the exception ends the process, with the
\* status 1 the handler's sys.exit(1) gives as well.
OnRequestProblem == [exitcode |-> 1, cause |-> "RequestProblem"]

\* _handle_token_plot(token): self.api.get_plot(token)
HandleTokenPlot ==
    IF "get_plot" \in ApiMethods
    THEN [exitcode |-> 0, cause |-> "completed"]
    ELSE [exitcode |-> 1, cause |-> "AttributeError"]

\* The writes of the spinner the model follows: spinner_task loops for as
\* long as the process waits.
MaxOut == 5

\* The character '\b' the spinner writes after its cursor.
Backspace == "\\b"

\* Spinner.spinning_cursor: the cursors, over and over.
Cursors == <<"|", "/", "-", "\\">>

\* The cursors written so far.
RECURSIVE NCursors(_)
NCursors(w) ==
    IF w = <<>> THEN 0
    ELSE (IF Head(w) \in {"|", "/", "-", "\\"} THEN 1 ELSE 0) + NCursors(Tail(w))

\* next(self.spinner_generator)
NextCursor(w) == Cursors[(NCursors(w) % Len(Cursors)) + 1]

\* app.wait_token(ns.token, do_plot) is entered: Spinner.__enter__ has
\* started the spinner thread.
InitCli ==
    /\ do_plot \in BOOLEAN
    /\ clisrv \in Statuses
    /\ clipc = "check"
    /\ clires = "none"
    /\ clipos = 0
    /\ exitcode = -1
    /\ cause = "none"
    /\ printed = FALSE
    /\ spin = "test"
    /\ event = FALSE
    /\ stdout = <<>>
    /\ IdlePoll /\ IdleJob /\ IdleData /\ IdleCompat /\ IdleCombine /\ IdleCompile

\* The server works on the job.
CliServerStep ==
    /\ clipc # "exited"
    /\ clisrv \notin Terminal
    /\ \E s \in Statuses \ {clisrv} : clisrv' = s
    /\ UNCHANGED <<do_plot, clipc, clires, clipos, exitcode, cause, printed,
                   spin, event, stdout>>
    /\ UNCHANGED nonCliVars

\* wait_token_impl: the next timeout is taken, then res = check_token(token).
\* An exception leaves the with block: Spinner.__exit__ sets the event.
CheckToken ==
    /\ clipc = "check"
    /\ clipos' = Min(clipos + 1, Len(FIBO) + 1)
    /\ \E ok \in BOOLEAN :
        IF ok
        THEN /\ clires' = clisrv
             /\ clipc' = "handle"
             /\ UNCHANGED <<exitcode, cause, event>>
        ELSE /\ clipc' = "exited"
             /\ event' = TRUE
             /\ exitcode' = OnRequestProblem.exitcode
             /\ cause' = OnRequestProblem.cause
             /\ UNCHANGED clires
    /\ UNCHANGED <<do_plot, clisrv, printed, spin, stdout>>
    /\ UNCHANGED nonCliVars

\* handle_token_result(res, token, do_plot), up to the first write of
\* print(res['result']): the result itself.
HandleTokenResult ==
    /\ clipc = "handle"
    /\ CASE WaitTokenImpl(clires) = "exit" ->
              /\ clipc' = "exited"
              /\ event' = TRUE
              /\ exitcode' = 1
              /\ cause' = "errored"
              /\ UNCHANGED <<printed, stdout>>
         [] WaitTokenImpl(clires) = "true" ->
              /\ stdout' = Append(stdout, "result")
              /\ printed' = TRUE
              /\ clipc' = "print"
              /\ UNCHANGED <<exitcode, cause, event>>
         [] OTHER ->
              /\ clipc' = "resume"
              /\ UNCHANGED <<exitcode, cause, printed, event, stdout>>
    /\ UNCHANGED <<do_plot, clisrv, clires, clipos, spin>>
    /\ UNCHANGED nonCliVars

\* handle_token_result, the rest: print writes its end, the plot is made
\* when asked for, and sys.exit(0) leaves the with block.
PrintEnd ==
    /\ clipc = "print"
    /\ stdout' = Append(stdout, "\n")
    /\ clipc' = "exited"
    /\ event' = TRUE
    /\ exitcode' = IF do_plot THEN HandleTokenPlot.exitcode ELSE 0
    /\ cause' = IF do_plot THEN HandleTokenPlot.cause ELSE "completed"
    /\ UNCHANGED <<do_plot, clisrv, clires, clipos, printed, spin>>
    /\ UNCHANGED nonCliVars

\* wait_token_impl resumes after its yield; when it returns, wait_token and
\* main return and the process ends with status 0.
CliResume ==
    /\ clipc = "resume"
    /\ CASE CliAfterYield(clires) = "sleep" ->
              clipc' = "sleep" /\ UNCHANGED <<exitcode, cause, event>>
         [] CliAfterYield(clires) = "return" ->
              /\ clipc' = "exited" /\ exitcode' = 0 /\ cause' = "returned"
              /\ event' = TRUE
         [] OTHER ->
              clipc' = "check" /\ UNCHANGED <<exitcode, cause, event>>
    /\ UNCHANGED <<do_plot, clisrv, clires, clipos, printed, spin, stdout>>
    /\ UNCHANGED nonCliVars

\* time.sleep(timeout)
CliSleep ==
    /\ clipc = "sleep"
    /\ clipc' = "check"
    /\ UNCHANGED <<do_plot, clisrv, clires, clipos, exitcode, cause, printed,
                   spin, event, stdout>>
    /\ UNCHANGED nonCliVars

\* spinner_task: while not self.event.isSet()
SpinTest ==
    /\ spin = "test"
    /\ spin' = IF event THEN "done" ELSE "cursor"
    /\ UNCHANGED <<do_plot, clisrv, clipc, clires, clipos, exitcode, cause, printed,
                   event, stdout>>
    /\ UNCHANGED nonCliVars

\* spinner_task: sys.stdout.write(next(self.spinner_generator))
SpinCursor ==
    /\ spin = "cursor"
    /\ Len(stdout) < MaxOut
    /\ stdout' = Append(stdout, NextCursor(stdout))
    /\ spin' = "sleep"
    /\ UNCHANGED <<do_plot, clisrv, clipc, clires, clipos, exitcode, cause, printed,
                   event>>
    /\ UNCHANGED nonCliVars

\* spinner_task: time.sleep(self.delay), then sys.stdout.write('\b')
SpinBack ==
    /\ spin = "sleep"
    /\ Len(stdout) < MaxOut
    /\ stdout' = Append(stdout, Backspace)
    /\ spin' = "test"
    /\ UNCHANGED <<do_plot, clisrv, clipc, clires, clipos, exitcode, cause, printed,
                   event>>
    /\ UNCHANGED nonCliVars

NextCli ==
    \/ CliServerStep
    \/ CheckToken
    \/ HandleTokenResult
    \/ PrintEnd
    \/ CliResume
    \/ CliSleep
    \/ SpinTest
    \/ SpinCursor
    \/ SpinBack

SpecCli == InitCli /\ [][NextCli]_vars

\* C30 (as claimed): in the wait loop of the command line program a token
\* reported errored ends the process with a status that is not 0, a
\* RequestProblem ends it with a status that is not 0, a token reported
\* completed has its result printed and ends the process with status 0, and
\* the process never ends with status 0 without a completed result printed.
C30_ExitStatuses ==
    clipc = "exited" =>
        /\ cause = "RequestProblem" => exitcode # 0
        /\ (cause # "RequestProblem" /\ clires = "errored") => exitcode # 0
        /\ (cause # "RequestProblem" /\ clires = "completed") =>
              (printed /\ exitcode = 0)
        /\ exitcode = 0 => (printed /\ clires = "completed")

\* The writes to stdout from the first write of the result on.
RECURSIVE FromResult(_)
FromResult(w) ==
    IF w = <<>> THEN <<>>
    ELSE IF Head(w) = "result" THEN w
    ELSE FromResult(Tail(w))

\* C38 (as claimed): the spinner thread and the main thread do not interleave
\* on stdout while the result is printed: once the print of the result has
\* started, stdout receives the result and the end of its line and nothing
\* else, no cursor and no backspace of the spinner.
C38_NoInterleaving ==
    printed => FromResult(stdout) \in {<<"result">>, <<"result", "\n">>}

====
